---- MODULE Spec2Model ----
(***************************************************************************)
(* Model of the normalization-and-projection engine of the ETL pipeline:   *)
(*   transform/transform.py          DataNormalizer (raw JSON -> 3NF)      *)
(*   load/load_star_schema.py        StarSchemaLoader                      *)
(*   load/load_snowflake_schema.py   SnowflakeSchemaLoader                 *)
(*   load/load_mongo.py              MongoDataLoader (document projection) *)
(*   validate/data_validator.py      DataValidator                         *)
(*                                                                         *)
(* JSON values are tagged records, so that a missing key, a JSON null, a   *)
(* number and a string stay distinct and Python truthiness can be applied  *)
(* the way the code applies it.  Money is kept in hundredths.              *)
(***************************************************************************)
EXTENDS Integers, Sequences, FiniteSets, TLC

VARIABLES
    \* ---- calendar builder (_generate_date_dimension), one call
    cal_pc, start_year, end_year, current, date_id, dates,
    \* ---- DataNormalizer instance and the raw / processed directories
    raw_files, users_raw, products_raw, carts_raw,
    pc, address_id, bank_id, company_id, category_id, review_id,
    product_tag_id, product_image_id, order_item_id,
    category_cache, tables, processed,
    \* ---- consumers of the processed directory
    consumer, users_docs, products_docs, orders_docs, errors, warnings, results,
    star_pc, star_db, snow_pc, snow_db, snow_log,
    \* ---- one fact record's measures computed on its own
    fact_in, fact_out,
    \* ---- PostgresDataLoader.load_all_data over a processed directory
    pg_pc, pg_dir, pg_pos, pg_pending, pg_db, pg_timing,
    \* ---- one call of _generate_order_date: the clock it read, what it returned
    od_now, od_out,
    \* ---- what the first normalize_all read and returned, once a second one runs
    first_run,
    \* ---- pipeline.main
    pipe_pc, pipe_i, pipe_results, pipe_log,
    \* ---- TestDataGenerator: the loop in progress, its source and output files
    gen, gen_source, test_files,
    \* ---- SnowflakeSchemaLoader._generate_date_dimension, one call, and what
    \* ---- the first pair of calendar calls returned once they are repeated
    snow_cal_pc, snow_current, snow_date_id, snow_dates, first_dates

calVars == <<cal_pc, start_year, end_year, current, date_id, dates>>
rawVars == <<raw_files, users_raw, products_raw, carts_raw>>
normVars == <<pc, address_id, bank_id, company_id, category_id, review_id,
              product_tag_id, product_image_id, order_item_id,
              category_cache, tables, processed>>
mongoVars == <<users_docs, products_docs, orders_docs>>
validVars == <<errors, warnings, results>>
starVars == <<star_pc, star_db>>
snowVars == <<snow_pc, snow_db, snow_log>>
consVars == <<consumer, mongoVars, validVars, starVars, snowVars>>
factVars == <<fact_in, fact_out>>
pgVars == <<pg_pc, pg_dir, pg_pos, pg_pending, pg_db, pg_timing>>
odVars == <<od_now, od_out>>
rerunVars == <<first_run>>
pipeVars == <<pipe_pc, pipe_i, pipe_results, pipe_log>>
genVars == <<gen, gen_source, test_files>>
snowCalVars == <<snow_cal_pc, snow_current, snow_date_id, snow_dates, first_dates>>
otherVars == <<pgVars, odVars, rerunVars, pipeVars, genVars, snowCalVars>>
vars == <<calVars, rawVars, normVars, consVars, factVars, otherVars>>

-----------------------------------------------------------------------------
(* JSON / Python values *)

\* a key that the dict does not have
Absent == [k |-> "absent"]
\* Python None / JSON null
None == [k |-> "none"]
Num(n) == [k |-> "int", v |-> n]
Str(s) == [k |-> "str", v |-> s]
\* a string kept as its sequence of characters
Chars(s) == [k |-> "chars", v |-> s]
List(s) == [k |-> "list", v |-> s]
Obj(r) == [k |-> "obj", v |-> r]

\* dict.get(key): the value, None when the key is missing
Get(x) == IF x = Absent THEN None ELSE x
\* dict.get(key, default)
GetD(x, d) == IF x = Absent THEN d ELSE x

\* Python truthiness of a value taken out of a dict with .get()
Truthy(x) ==
    CASE x.k = "int" -> x.v # 0
      [] x.k = "str" -> x.v # ""
      [] x.k = "chars" -> x.v # <<>>
      [] x.k = "list" -> x.v # <<>>
      [] x.k = "obj" -> \E f \in DOMAIN x.v : x.v[f] # Absent
      [] OTHER -> FALSE

\* x or d
OrElse(x, d) == IF Truthy(x) THEN x ELSE d

Range(s) == {s[i] : i \in DOMAIN s}

-----------------------------------------------------------------------------
(* datetime arithmetic, as CPython's datetime does it (proleptic Gregorian) *)

IsLeap(y) == (y % 4 = 0) /\ ((y % 100 # 0) \/ (y % 400 = 0))

DaysInMonth(y, m) ==
    IF m = 2 THEN (IF IsLeap(y) THEN 29 ELSE 28)
    ELSE IF m \in {4, 6, 9, 11} THEN 30 ELSE 31

\* days before January 1st of year y (datetime._days_before_year)
DaysBeforeYear(y) ==
    LET p == y - 1 IN p * 365 + (p \div 4) - (p \div 100) + (p \div 400)

\* days in year y before the first day of month m (datetime._days_before_month)
DaysBeforeMonth(y, m) ==
    LET cum == <<0, 31, 59, 90, 120, 151, 181, 212, 243, 273, 304, 334>>
    IN cum[m] + (IF m > 2 /\ IsLeap(y) THEN 1 ELSE 0)

\* date.toordinal(): 0001-01-01 is day 1
ToOrdinal(d) == DaysBeforeYear(d[1]) + DaysBeforeMonth(d[1], d[2]) + d[3]

\* date.weekday(): Monday is 0
Weekday(d) == (ToOrdinal(d) + 6) % 7

\* the ordinal of the Monday that starts ISO week 1 of year y
\* (datetime._isoweek1monday: the week that holds the year's first Thursday)
IsoWeek1Monday(y) ==
    LET firstday == ToOrdinal(<<y, 1, 1>>)
        firstweekday == (firstday + 6) % 7
    IN IF firstweekday > 3 THEN firstday - firstweekday + 7
       ELSE firstday - firstweekday

\* date.isocalendar()[1]
IsoWeek(d) ==
    LET today == ToOrdinal(d)
        week == (today - IsoWeek1Monday(d[1])) \div 7
    IN IF today < IsoWeek1Monday(d[1])
       THEN ((today - IsoWeek1Monday(d[1] - 1)) \div 7) + 1
       ELSE IF week >= 52 /\ today >= IsoWeek1Monday(d[1] + 1) THEN 1
       ELSE week + 1

\* current += timedelta(days=1)
NextDayNoLeap(d) ==
    IF d[3] < (IF d[2] = 2 THEN 28 ELSE DaysInMonth(d[1], d[2]))
    THEN <<d[1], d[2], d[3] + 1>>
    ELSE IF d[2] < 12 THEN <<d[1], d[2] + 1, 1>>
    ELSE <<d[1] + 1, 1, 1>>

NextDay(d) ==
    IF d[3] < DaysInMonth(d[1], d[2]) THEN <<d[1], d[2], d[3] + 1>>
    ELSE IF d[2] < 12 THEN <<d[1], d[2] + 1, 1>>
    ELSE <<d[1] + 1, 1, 1>>

\* int(date.strftime("%Y%m%d"))
YYYYMMDD(d) == d[1] * 10000 + d[2] * 100 + d[3]

-----------------------------------------------------------------------------
(* CalendarDimensionBuilder: StarSchemaLoader._generate_date_dimension; the *)
(* rows every reader of dim_date is handed                                 *)

holidays == {<<1, 1>>, <<7, 4>>, <<12, 25>>}

\* month_names[current.month - 1] and day_names[current.weekday()], 1-based here
month_names == <<"January", "February", "March", "April", "May", "June", "July",
                 "August", "September", "October", "November", "December">>
day_names == <<"Monday", "Tuesday", "Wednesday", "Thursday", "Friday", "Saturday",
               "Sunday">>

\* the dict appended for `current` with the running date_id
DateRowFiscalFromJanuary(id, d) ==
    [date_id |-> id, full_date |-> d, year |-> d[1],
     quarter |-> ((d[2] - 1) \div 3) + 1, month |-> d[2],
     month_name |-> month_names[d[2]], day |-> d[3],
     day_of_week |-> Weekday(d) + 1, day_name |-> day_names[Weekday(d) + 1],
     week_of_year |-> IsoWeek(d), is_weekend |-> Weekday(d) >= 5,
     is_holiday |-> <<d[2], d[3]>> \in holidays,
     fiscal_year |-> IF d[2] < 10 THEN d[1] ELSE d[1] + 1,
     fiscal_quarter |-> (((d[2] - 1) % 12) \div 3) + 1]

DateRow(id, d) ==
    [date_id |-> id, full_date |-> d, year |-> d[1],
     quarter |-> ((d[2] - 1) \div 3) + 1, month |-> d[2],
     month_name |-> month_names[d[2]], day |-> d[3],
     day_of_week |-> Weekday(d) + 1, day_name |-> day_names[Weekday(d) + 1],
     week_of_year |-> IsoWeek(d), is_weekend |-> Weekday(d) >= 5,
     is_holiday |-> <<d[2], d[3]>> \in holidays,
     fiscal_year |-> IF d[2] < 10 THEN d[1] ELSE d[1] + 1,
     fiscal_quarter |-> (((d[2] - 10) % 12) \div 3) + 1]

\* the years the calendar is asked for, and the longest range
FirstYear == 2019
YearCount == 3
MaxSpan == 1

\* the loop condition `while current.year <= end_year`
LoopGuard(cur, last) == cur[1] <= last

CalIdle ==
    /\ cal_pc = "idle" /\ start_year = 0 /\ end_year = 0
    /\ current = <<0, 0, 0>> /\ date_id = 0 /\ dates = <<>>

\* dates = []; current = datetime(start_year, 1, 1); date_id = 1
GenerateBegin ==
    /\ cal_pc = "idle"
    /\ \E sy \in FirstYear .. (FirstYear + YearCount - 1), span \in 0 .. MaxSpan :
          /\ start_year' = sy
          /\ end_year' = sy + span
          /\ current' = <<sy, 1, 1>>
    /\ date_id' = 1
    /\ dates' = <<>>
    /\ cal_pc' = "loop"
    /\ UNCHANGED <<rawVars, normVars, consVars, factVars, otherVars>>

\* one iteration of the while loop
GenerateStep ==
    /\ cal_pc = "loop"
    /\ LoopGuard(current, end_year)
    /\ dates' = Append(dates, DateRow(date_id, current))
    /\ current' = NextDay(current)
    /\ date_id' = date_id + 1
    /\ UNCHANGED <<cal_pc, start_year, end_year, rawVars, normVars, consVars, factVars, otherVars>>

\* return dates
GenerateReturn ==
    /\ cal_pc = "loop"
    /\ ~LoopGuard(current, end_year)
    /\ cal_pc' = "done"
    /\ UNCHANGED <<start_year, end_year, current, date_id, dates,
                   rawVars, normVars, consVars, factVars, otherVars>>

-----------------------------------------------------------------------------
(* SnowflakeSchemaLoader._generate_date_dimension, translated on its own:    *)
(* its name lists are built once before the loop, the rest is line by line.  *)

snow_holidays == {<<1, 1>>, <<7, 4>>, <<12, 25>>}

snow_month_names == <<"January", "February", "March", "April", "May", "June",
                      "July", "August", "September", "October", "November",
                      "December">>

snow_day_names == <<"Monday", "Tuesday", "Wednesday", "Thursday", "Friday",
                    "Saturday", "Sunday">>

SnowDateRowWeekendFromFriday(id, d) ==
    LET is_holiday == <<d[2], d[3]>> \in snow_holidays
        fiscal_year == IF d[2] < 10 THEN d[1] ELSE d[1] + 1
        fiscal_quarter == (((d[2] - 10) % 12) \div 3) + 1
    IN [date_id |-> id, full_date |-> d, year |-> d[1],
        quarter |-> ((d[2] - 1) \div 3) + 1, month |-> d[2],
        month_name |-> snow_month_names[(d[2] - 1) + 1], day |-> d[3],
        day_of_week |-> Weekday(d) + 1,
        day_name |-> snow_day_names[Weekday(d) + 1],
        week_of_year |-> IsoWeek(d), is_weekend |-> Weekday(d) >= 4,
        is_holiday |-> is_holiday, fiscal_year |-> fiscal_year,
        fiscal_quarter |-> fiscal_quarter]

\* the dict the snowflake loop appends for `current` with the running date_id
SnowDateRow(id, d) ==
    LET is_holiday == <<d[2], d[3]>> \in snow_holidays
        fiscal_year == IF d[2] < 10 THEN d[1] ELSE d[1] + 1
        fiscal_quarter == (((d[2] - 10) % 12) \div 3) + 1
    IN [date_id |-> id, full_date |-> d, year |-> d[1],
        quarter |-> ((d[2] - 1) \div 3) + 1, month |-> d[2],
        month_name |-> snow_month_names[(d[2] - 1) + 1], day |-> d[3],
        day_of_week |-> Weekday(d) + 1,
        day_name |-> snow_day_names[Weekday(d) + 1],
        week_of_year |-> IsoWeek(d), is_weekend |-> Weekday(d) >= 5,
        is_holiday |-> is_holiday, fiscal_year |-> fiscal_year,
        fiscal_quarter |-> fiscal_quarter]

SnowCalIdle ==
    /\ snow_cal_pc = "idle" /\ snow_current = <<0, 0, 0>> /\ snow_date_id = 0
    /\ snow_dates = <<>> /\ first_dates = None

\* the snowflake loader is handed the years the star loader was handed:
\* dates = []; current = datetime(start_year, 1, 1); date_id = 1
SnowGenerateBegin ==
    /\ cal_pc = "done"
    /\ snow_cal_pc = "idle"
    /\ snow_current' = <<start_year, 1, 1>>
    /\ snow_date_id' = 1
    /\ snow_dates' = <<>>
    /\ snow_cal_pc' = "loop"
    /\ UNCHANGED <<calVars, rawVars, normVars, consVars, factVars, pgVars, odVars,
                   rerunVars, pipeVars, genVars, first_dates>>

\* one iteration of the while loop
SnowGenerateStep ==
    /\ snow_cal_pc = "loop"
    /\ snow_current[1] <= end_year
    /\ snow_dates' = Append(snow_dates, SnowDateRow(snow_date_id, snow_current))
    /\ snow_current' = NextDay(snow_current)
    /\ snow_date_id' = snow_date_id + 1
    /\ UNCHANGED <<calVars, rawVars, normVars, consVars, factVars, pgVars, odVars,
                   rerunVars, pipeVars, genVars, snow_cal_pc, first_dates>>

\* return dates
SnowGenerateReturn ==
    /\ snow_cal_pc = "loop"
    /\ ~(snow_current[1] <= end_year)
    /\ snow_cal_pc' = "done"
    /\ UNCHANGED <<calVars, rawVars, normVars, consVars, factVars, pgVars, odVars,
                   rerunVars, pipeVars, genVars, snow_current, snow_date_id,
                   snow_dates, first_dates>>

\* both builders are called a second time with the same years; what the first
\* calls returned is kept aside
GenerateAgain ==
    /\ cal_pc = "done"
    /\ snow_cal_pc = "done"
    /\ first_dates = None
    /\ first_dates' = [star |-> dates, snowflake |-> snow_dates]
    /\ current' = <<start_year, 1, 1>>
    /\ date_id' = 1
    /\ dates' = <<>>
    /\ cal_pc' = "loop"
    /\ snow_current' = <<0, 0, 0>>
    /\ snow_date_id' = 0
    /\ snow_dates' = <<>>
    /\ snow_cal_pc' = "idle"
    /\ UNCHANGED <<start_year, end_year, rawVars, normVars, consVars, factVars,
                   pgVars, odVars, rerunVars, pipeVars, genVars>>

-----------------------------------------------------------------------------
(* DataNormalizer (transform/transform.py)                                  *)
(* Names a string operation works on are sequences of characters.           *)

UpperChars == <<"A", "B", "C", "D", "E", "F", "G", "H", "I", "J", "K", "L", "M",
                "N", "O", "P", "Q", "R", "S", "T", "U", "V", "W", "X", "Y", "Z">>
LowerChars == <<"a", "b", "c", "d", "e", "f", "g", "h", "i", "j", "k", "l", "m",
                "n", "o", "p", "q", "r", "s", "t", "u", "v", "w", "x", "y", "z">>

LowerChar(c) ==
    IF \E i \in DOMAIN UpperChars : UpperChars[i] = c
    THEN LowerChars[CHOOSE i \in DOMAIN UpperChars : UpperChars[i] = c]
    ELSE c

\* str.lower()
Lower(s) == [i \in DOMAIN s |-> LowerChar(s[i])]

\* str.replace(a, b) for one-character a and b
Replace(s, a, b) == [i \in DOMAIN s |-> IF s[i] = a THEN b ELSE s[i]]

\* category_name.lower().replace(" ", "-")
Slug(name) == Replace(Lower(name), " ", "-")

uncategorized == <<"u", "n", "c", "a", "t", "e", "g", "o", "r", "i", "z", "e", "d">>

TableNames == {"addresses", "banks", "companies", "categories", "users", "products",
               "product_tags", "product_images", "reviews", "orders", "order_items"}

\* the `tables` dict of normalize_all before the loops
EmptyTables == [t \in TableNames |-> <<>>]

\* addr.get("coordinates", {})
Coordinates(addr) ==
    GetD(addr.coordinates, Obj([lat |-> Absent, lng |-> Absent])).v

\* the address dict built from a raw address (user or company address)
AddressRowAfterIncrement(id, addr) ==
    [id |-> Num(id + 1),
     address_line |-> GetD(addr.address, Str("")),
     city |-> GetD(addr.city, Str("")),
     state |-> GetD(addr.state, Str("")),
     state_code |-> GetD(addr.stateCode, Str("")),
     postal_code |-> GetD(addr.postalCode, Str("")),
     country |-> GetD(addr.country, Str("United States")),
     latitude |-> Get(Coordinates(addr).lat),
     longitude |-> Get(Coordinates(addr).lng)]

AddressRow(id, addr) ==
    [id |-> Num(id),
     address_line |-> GetD(addr.address, Str("")),
     city |-> GetD(addr.city, Str("")),
     state |-> GetD(addr.state, Str("")),
     state_code |-> GetD(addr.stateCode, Str("")),
     postal_code |-> GetD(addr.postalCode, Str("")),
     country |-> GetD(addr.country, Str("United States")),
     latitude |-> Get(Coordinates(addr).lat),
     longitude |-> Get(Coordinates(addr).lng)]

\* _normalize_user with the counters it reads; returns the rows (None when not
\* extracted) and the counters it leaves
NormalizeUser(user, aid, bid, cid) ==
    LET hasAddr == Truthy(Get(user.address))
        hasBank == Truthy(Get(user.bank))
        hasComp == Truthy(Get(user.company))
        hasCA == hasComp /\ Truthy(Get(user.company.v.address))
        \* self.address_id after the user's own address
        aid1 == IF hasAddr THEN aid + 1 ELSE aid
    IN [user |-> [id |-> user.id,
                  first_name |-> Get(user.firstName),
                  last_name |-> Get(user.lastName),
                  age |-> Get(user.age),
                  email |-> Get(user.email),
                  username |-> Get(user.username),
                  role |-> GetD(user.role, Str("user")),
                  bank_id |-> IF hasBank THEN Num(bid) ELSE None,
                  company_id |-> IF hasComp THEN Num(cid) ELSE None,
                  address_id |-> IF hasAddr THEN Num(aid) ELSE None],
        address |-> IF hasAddr THEN AddressRow(aid, user.address.v) ELSE None,
        bank |-> IF hasBank
                 THEN [id |-> Num(bid),
                       card_number |-> Get(user.bank.v.cardNumber),
                       iban |-> Get(user.bank.v.iban)]
                 ELSE None,
        company |-> IF hasComp
                    THEN [id |-> Num(cid),
                          name |-> GetD(user.company.v.name, Str("")),
                          title |-> Get(user.company.v.title),
                          address_id |-> IF hasCA THEN Num(aid1) ELSE None]
                    ELSE None,
        company_address |-> IF hasCA
                            THEN AddressRow(aid1, user.company.v.address.v)
                            ELSE None,
        address_id |-> IF hasCA THEN aid1 + 1 ELSE aid1,
        bank_id |-> IF hasBank THEN bid + 1 ELSE bid,
        company_id |-> IF hasComp THEN cid + 1 ELSE cid]

\* a list value of a raw record, [] when the key is missing
ListOf(x) == IF x = Absent THEN <<>> ELSE x.v

\* index of the cache entry for a slug, 0 when the slug is not cached
CacheIndexByName(cache, slug) ==
    IF \E i \in DOMAIN cache : cache[i].name = Chars(slug)
    THEN CHOOSE i \in DOMAIN cache : cache[i].name = Chars(slug)
    ELSE 0

CacheIndex(cache, slug) ==
    IF \E i \in DOMAIN cache : cache[i].slug = Chars(slug)
    THEN CHOOSE i \in DOMAIN cache : cache[i].slug = Chars(slug)
    ELSE 0

\* product.get("category", "uncategorized") is a string (else .lower() raises)
CategoryIsString(product) == GetD(product.category, Chars(uncategorized)).k = "chars"

\* _normalize_product with the counters and cache it reads; returns the rows,
\* the cache and the counters it leaves
NormalizeProduct(product, catid, cache, tagid, imgid, revid) ==
    LET category_name == GetD(product.category, Chars(uncategorized)).v
        category_slug == Slug(category_name)
        hit == CacheIndex(cache, category_slug)
        newCache == IF hit = 0
                    THEN Append(cache, [id |-> Num(catid),
                                        name |-> Chars(category_name),
                                        slug |-> Chars(category_slug)])
                    ELSE cache
        cat == IF hit = 0 THEN Num(catid) ELSE cache[hit].id
        tags == ListOf(product.tags)
        images == ListOf(product.images)
        reviews == ListOf(product.reviews)
    IN [product |-> [id |-> product.id,
                     title |-> Get(product.title),
                     category_id |-> cat,
                     price |-> Get(product.price),
                     rating |-> Get(product.rating),
                     stock |-> Get(product.stock),
                     brand |-> Get(product.brand),
                     thumbnail_url |-> Get(product.thumbnail)],
        tags |-> [i \in DOMAIN tags |->
                    [id |-> Num(tagid + i - 1), product_id |-> product.id,
                     tag |-> tags[i]]],
        images |-> [i \in DOMAIN images |->
                      [id |-> Num(imgid + i - 1), product_id |-> product.id,
                       image_url |-> images[i], image_order |-> Num(i - 1)]],
        reviews |-> [i \in DOMAIN reviews |->
                       [id |-> Num(revid + i - 1), product_id |-> product.id,
                        rating |-> Get(reviews[i].rating),
                        comment |-> Get(reviews[i].comment)]],
        category_cache |-> newCache,
        category_id |-> IF hit = 0 THEN catid + 1 ELSE catid,
        product_tag_id |-> tagid + Len(tags),
        product_image_id |-> imgid + Len(images),
        review_id |-> revid + Len(reviews)]

\* date.fromordinal()
FromOrdinal(n) ==
    LET y0 == (n \div 366) + 1
        y == CHOOSE yy \in y0 .. (y0 + 8) :
                 DaysBeforeYear(yy) < n /\ n <= DaysBeforeYear(yy + 1)
        r == n - DaysBeforeYear(y)
        m == CHOOSE mm \in 1 .. 12 :
                 DaysBeforeMonth(y, mm) < r
                 /\ r <= DaysBeforeMonth(y, mm) + DaysInMonth(y, mm)
    IN <<y, m, r - DaysBeforeMonth(y, m)>>

\* _generate_order_date: now - timedelta(days_ago) with the time of day replaced,
\* as the fields isoformat() writes
GenerateOrderDate(now, days_ago, hour, minute, second) ==
    [date |-> FromOrdinal(ToOrdinal(now) - days_ago),
     hour |-> hour, minute |-> minute, second |-> second]

\* datetime.fromisoformat(order["order_date"]).date()
OrderDateOf(order) == order.order_date.date

\* _normalize_cart numbering the items of every order from 1 on
NormalizeCartItemIdsPerOrder(cart, itemid, order_date, status) ==
    LET items == ListOf(cart.products)
    IN [order |-> [id |-> cart.id,
                   user_id |-> Get(cart.userId),
                   total |-> Get(cart.total),
                   order_date |-> order_date,
                   status |-> Str(status)],
        items |-> [i \in DOMAIN items |->
                     [id |-> Num(i),
                      order_id |-> cart.id,
                      product_id |-> Get(items[i].id),
                      quantity |-> Get(items[i].quantity),
                      price |-> Get(items[i].price),
                      discount_percentage |-> Get(items[i].discountPercentage),
                      total |-> Get(items[i].total)]],
        order_item_id |-> itemid]

\* _normalize_cart, given the random draws
NormalizeCart(cart, itemid, order_date, status) ==
    LET items == ListOf(cart.products)
    IN [order |-> [id |-> cart.id,
                   user_id |-> Get(cart.userId),
                   total |-> Get(cart.total),
                   order_date |-> order_date,
                   status |-> Str(status)],
        items |-> [i \in DOMAIN items |->
                     [id |-> Num(itemid + i - 1),
                      order_id |-> cart.id,
                      product_id |-> Get(items[i].id),
                      quantity |-> Get(items[i].quantity),
                      price |-> Get(items[i].price),
                      discount_percentage |-> Get(items[i].discountPercentage),
                      total |-> Get(items[i].total)]],
        order_item_id |-> itemid + Len(items)]

RawFileNames == {"users.json", "products.json", "carts.json"}

\* DataNormalizer._load_json: open() of a missing file raises
LoadJson(filename, present) ==
    IF filename \in present THEN "loaded" ELSE "FileNotFoundError"

\* -- normalize_all ---------------------------------------------------------

\* the three _load_json calls and `tables = {...}`; the stages run one after
\* another, so no reader of the processed directory has started
NormalizeAllBegin ==
    /\ pc = "idle"
    /\ consumer = "none"
    /\ IF \A f \in RawFileNames : LoadJson(f, raw_files) = "loaded"
       THEN pc' = "users" /\ tables' = EmptyTables
       ELSE pc' = "raised" /\ tables' = tables
    /\ UNCHANGED <<address_id, bank_id, company_id, category_id, review_id,
                   product_tag_id, product_image_id, order_item_id,
                   category_cache, processed, rawVars, calVars, consVars, factVars, otherVars>>

\* one iteration of `for user in users_raw`
NormalizeUserStep(user) ==
    /\ pc = "users"
    /\ LET n == NormalizeUser(user, address_id, bank_id, company_id)
           a1 == IF n.address # None
                 THEN Append(tables.addresses, n.address) ELSE tables.addresses
           a2 == IF n.company # None /\ n.company_address # None
                 THEN Append(a1, n.company_address) ELSE a1
       IN /\ tables' = [tables EXCEPT
                          !.addresses = a2,
                          !.banks = IF n.bank # None THEN Append(@, n.bank) ELSE @,
                          !.companies = IF n.company # None
                                        THEN Append(@, n.company) ELSE @,
                          !.users = Append(@, n.user)]
          /\ address_id' = n.address_id
          /\ bank_id' = n.bank_id
          /\ company_id' = n.company_id
    /\ users_raw' = Append(users_raw, user)
    /\ UNCHANGED <<pc, category_id, review_id, product_tag_id, product_image_id,
                   order_item_id, category_cache, processed,
                   raw_files, products_raw, carts_raw, calVars, consVars, factVars, otherVars>>

\* the users loop is exhausted
UsersDone ==
    /\ pc = "users"
    /\ pc' = "products"
    /\ UNCHANGED <<address_id, bank_id, company_id, category_id, review_id,
                   product_tag_id, product_image_id, order_item_id,
                   category_cache, tables, processed, rawVars, calVars, consVars, factVars, otherVars>>

\* one iteration of `for product in products_raw`
NormalizeProductStep(product) ==
    /\ pc = "products"
    /\ products_raw' = Append(products_raw, product)
    /\ IF CategoryIsString(product)
       THEN LET n == NormalizeProduct(product, category_id, category_cache,
                                      product_tag_id, product_image_id, review_id)
            IN /\ tables' = [tables EXCEPT
                               !.products = Append(@, n.product),
                               !.product_tags = @ \o n.tags,
                               !.product_images = @ \o n.images,
                               !.reviews = @ \o n.reviews]
               /\ category_cache' = n.category_cache
               /\ category_id' = n.category_id
               /\ product_tag_id' = n.product_tag_id
               /\ product_image_id' = n.product_image_id
               /\ review_id' = n.review_id
               /\ pc' = pc
       ELSE \* None.lower(): AttributeError leaves normalize_all
            /\ pc' = "raised"
            /\ UNCHANGED <<tables, category_cache, category_id, product_tag_id,
                           product_image_id, review_id>>
    /\ UNCHANGED <<address_id, bank_id, company_id, order_item_id, processed,
                   raw_files, users_raw, carts_raw, calVars, consVars, factVars, otherVars>>

\* the products loop is exhausted: tables["categories"] = list(cache.values())
ProductsDoneCacheNotCopied ==
    /\ pc = "products"
    /\ pc' = "carts"
    /\ UNCHANGED <<address_id, bank_id, company_id, category_id, review_id,
                   product_tag_id, product_image_id, order_item_id, tables,
                   category_cache, processed, rawVars, calVars, consVars, factVars, otherVars>>

ProductsDone ==
    /\ pc = "products"
    /\ tables' = [tables EXCEPT !.categories = category_cache]
    /\ pc' = "carts"
    /\ UNCHANGED <<address_id, bank_id, company_id, category_id, review_id,
                   product_tag_id, product_image_id, order_item_id,
                   category_cache, processed, rawVars, calVars, consVars, factVars, otherVars>>

\* one iteration of `for cart in carts_raw`, with the random draws of
\* _generate_order_date and random.choice
NormalizeCartStep(cart, now, days_ago, hour, minute, second, status) ==
    /\ pc = "carts"
    /\ LET n == NormalizeCart(cart, order_item_id,
                              GenerateOrderDate(now, days_ago, hour, minute, second),
                              status)
       IN /\ tables' = [tables EXCEPT
                          !.orders = Append(@, n.order),
                          !.order_items = @ \o n.items]
          /\ order_item_id' = n.order_item_id
    /\ carts_raw' = Append(carts_raw, cart)
    /\ UNCHANGED <<pc, address_id, bank_id, company_id, category_id, review_id,
                   product_tag_id, product_image_id, category_cache, processed,
                   raw_files, users_raw, products_raw, calVars, consVars, factVars, otherVars>>

\* the carts loop is exhausted: _save_normalized_data(tables); return tables
NormalizeAllReturn ==
    /\ pc = "carts"
    /\ processed' = [t \in TableNames |-> List(tables[t])]
    /\ pc' = "done"
    /\ UNCHANGED <<address_id, bank_id, company_id, category_id, review_id,
                   product_tag_id, product_image_id, order_item_id,
                   category_cache, tables, rawVars, calVars, consVars, factVars, otherVars>>

\* a second normalize_all() on the same DataNormalizer: the raw files are read
\* again and `tables` is a new dict; the counters and category_cache are
\* attributes of the instance, set in __init__ only
NormalizeAllAgain ==
    /\ pc = "done" /\ consumer = "none" /\ first_run = None
    /\ first_run' = [tables |-> tables, users |-> users_raw,
                     products |-> products_raw, carts |-> carts_raw,
                     normalizer |-> "same"]
    /\ users_raw' = <<>> /\ products_raw' = <<>> /\ carts_raw' = <<>>
    /\ pc' = "users" /\ tables' = EmptyTables
    /\ UNCHANGED <<address_id, bank_id, company_id, category_id, review_id,
                   product_tag_id, product_image_id, order_item_id,
                   category_cache, processed, raw_files, calVars, consVars, factVars,
                   pgVars, odVars, pipeVars, genVars, snowCalVars>>

\* DataNormalizer(...).normalize_all() once more, as run_transform does on a re-run
NewNormalizerNormalizeAll ==
    /\ pc = "done" /\ consumer = "none" /\ first_run = None
    /\ first_run' = [tables |-> tables, users |-> users_raw,
                     products |-> products_raw, carts |-> carts_raw,
                     normalizer |-> "new"]
    /\ users_raw' = <<>> /\ products_raw' = <<>> /\ carts_raw' = <<>>
    /\ address_id' = 1 /\ bank_id' = 1 /\ company_id' = 1 /\ category_id' = 1
    /\ review_id' = 1 /\ product_tag_id' = 1 /\ product_image_id' = 1
    /\ order_item_id' = 1
    /\ category_cache' = <<>>
    /\ pc' = "users" /\ tables' = EmptyTables
    /\ UNCHANGED <<processed, raw_files, calVars, consVars, factVars,
                   pgVars, odVars, pipeVars, genVars, snowCalVars>>

\* rec is the next record of a raw file of which `read` has been read: any new
\* record in the first run, the record the first run read there in the second
NextRecord(read, file, rec) ==
    IF first_run = None
    THEN \A i \in DOMAIN read : read[i].id # rec.id
    ELSE Len(read) < Len(first_run[file]) /\ rec = first_run[file][Len(read) + 1]

\* the raw file has no further record
EndOfFile(read, file) == IF first_run = None THEN TRUE ELSE read = first_run[file]

-----------------------------------------------------------------------------
(* MongoDataLoader (load/load_mongo.py): document projection                *)

\* the loaders' _load_json: a missing file reads as []
LoadOrEmpty(files, name) == IF files[name] = Absent THEN <<>> ELSE files[name].v

\* _load_all_normalized_data
LoadAllNormalizedData(files) == [t \in TableNames |-> LoadOrEmpty(files, t)]

\* {row["id"]: row for row in rows}.get(key): the last row with that id, else None
ById(rows, key) ==
    LET hits == {i \in DOMAIN rows : rows[i].id = key}
    IN IF hits = {} THEN None
       ELSE rows[CHOOSE i \in hits : \A j \in hits : j <= i]

\* the embedded address sub-document
AddressDocStateForCode(addr) ==
    [address_line |-> addr.address_line, city |-> addr.city, state |-> addr.state,
     state_code |-> addr.state, postal_code |-> addr.postal_code,
     country |-> addr.country,
     coordinates |-> [lat |-> addr.latitude, lng |-> addr.longitude]]

AddressDoc(addr) ==
    [address_line |-> addr.address_line, city |-> addr.city, state |-> addr.state,
     state_code |-> addr.state_code, postal_code |-> addr.postal_code,
     country |-> addr.country,
     coordinates |-> [lat |-> addr.latitude, lng |-> addr.longitude]]

\* one user document of _denormalize_users; a key that is not set is Absent
UserDoc(user, data) ==
    LET addr == ById(data.addresses, user.address_id)
        bank == ById(data.banks, user.bank_id)
        comp == ById(data.companies, user.company_id)
        comp_addr == IF comp # None THEN ById(data.addresses, comp.address_id) ELSE None
    IN [_id |-> user.id,
        first_name |-> user.first_name,
        last_name |-> user.last_name,
        age |-> user.age,
        email |-> user.email,
        username |-> user.username,
        role |-> user.role,
        address |-> IF addr # None THEN AddressDoc(addr) ELSE Absent,
        bank |-> IF bank # None
                 THEN [card_number |-> bank.card_number, iban |-> bank.iban]
                 ELSE Absent,
        company |-> IF comp # None
                    THEN [name |-> comp.name, title |-> comp.title,
                          address |-> IF comp_addr # None
                                      THEN AddressDoc(comp_addr) ELSE Absent]
                    ELSE Absent]

\* _denormalize_users
DenormalizeUsers(data) == [i \in DOMAIN data.users |-> UserDoc(data.users[i], data)]

\* by_key.setdefault(row[col], []).append(...) for the rows whose row[col] is
\* not None: the rows grouped under `key`, in table order
GroupOf(rows, col, key) == SelectSeq(rows, LAMBDA r : r[col] # None /\ r[col] = key)

\* images.sort(key=lambda x: x.get("order", 0)): stable, ascending
SortByOrderDescending(images) ==
    LET Rank(i) == Cardinality({j \in DOMAIN images :
                       \/ images[j].order.v > images[i].order.v
                       \/ (images[j].order.v = images[i].order.v /\ j < i)}) + 1
    IN [k \in DOMAIN images |-> images[CHOOSE i \in DOMAIN images : Rank(i) = k]]

SortByOrder(images) ==
    LET Rank(i) == Cardinality({j \in DOMAIN images :
                       \/ images[j].order.v < images[i].order.v
                       \/ (images[j].order.v = images[i].order.v /\ j < i)}) + 1
    IN [k \in DOMAIN images |-> images[CHOOSE i \in DOMAIN images : Rank(i) = k]]

\* one product document of _denormalize_products
ProductDoc(product, data) ==
    LET cat == ById(data.categories, product.category_id)
        tags == GroupOf(data.product_tags, "product_id", product.id)
        rows == GroupOf(data.product_images, "product_id", product.id)
        images == SortByOrder([i \in DOMAIN rows |->
                      [url |-> rows[i].image_url, order |-> rows[i].image_order]])
        reviews == GroupOf(data.reviews, "product_id", product.id)
    IN [_id |-> product.id,
        title |-> product.title,
        price |-> product.price,
        rating |-> product.rating,
        stock |-> product.stock,
        brand |-> product.brand,
        thumbnail |-> product.thumbnail_url,
        category |-> IF cat # None
                     THEN [id |-> cat.id, name |-> cat.name, slug |-> cat.slug]
                     ELSE Absent,
        tags |-> [i \in DOMAIN tags |-> tags[i].tag],
        images |-> [i \in DOMAIN images |-> images[i].url],
        reviews |-> [i \in DOMAIN reviews |->
                       [rating |-> reviews[i].rating, comment |-> reviews[i].comment]]]

\* _denormalize_products
DenormalizeProducts(data) ==
    [i \in DOMAIN data.products |-> ProductDoc(data.products[i], data)]

\* the item sub-document of one order item whose product is known
ItemDoc(item, product, data) ==
    LET cat == ById(data.categories, product.category_id)
    IN [product_id |-> product.id,
        title |-> product.title,
        category |-> IF cat # None THEN cat.name ELSE None,
        price |-> item.price,
        quantity |-> item.quantity,
        total |-> item.total,
        discount_percentage |-> item.discount_percentage,
        thumbnail |-> product.thumbnail_url]

\* one order document of _denormalize_orders
OrderDoc(order, data) ==
    LET user == ById(data.users, order.user_id)
        order_items == GroupOf(data.order_items, "order_id", order.id)
        known == SelectSeq(order_items,
                           LAMBDA it : ById(data.products, it.product_id) # None)
    IN [_id |-> order.id,
        order_date |-> order.order_date,
        status |-> order.status,
        total |-> order.total,
        user |-> IF user # None
                 THEN [id |-> user.id, username |-> user.username,
                       first_name |-> user.first_name, last_name |-> user.last_name,
                       email |-> user.email]
                 ELSE Absent,
        items |-> [i \in DOMAIN known |->
                     ItemDoc(known[i], ById(data.products, known[i].product_id), data)]]

\* _denormalize_orders
DenormalizeOrders(data) == [i \in DOMAIN data.orders |-> OrderDoc(data.orders[i], data)]

\* the processed directory is not being written
NormalizerAtRest == pc \in {"idle", "raised", "done"}

\* denormalize_and_load, up to the documents handed to the collections
DenormalizeAndLoad ==
    /\ consumer = "none"
    /\ NormalizerAtRest
    /\ consumer' = "mongo"
    /\ users_docs' = DenormalizeUsers(LoadAllNormalizedData(processed))
    /\ products_docs' = DenormalizeProducts(LoadAllNormalizedData(processed))
    /\ orders_docs' = DenormalizeOrders(LoadAllNormalizedData(processed))
    /\ UNCHANGED <<validVars, starVars, snowVars, rawVars, normVars, calVars, factVars, otherVars>>

-----------------------------------------------------------------------------
(* DataValidator (validate/data_validator.py)                               *)

\* field in row
HasKey(row, field) == field \in DOMAIN row

\* row[field] is present and truthy
HasTruthy(row, field) == HasKey(row, field) /\ Truthy(row[field])

\* defaultdict(list): d[key].append(m) for every m of msgs, in order
AppendAllTouching(d, key, msgs) ==
    IF key \in DOMAIN d THEN [d EXCEPT ![key] = @ \o msgs] ELSE d @@ (key :> msgs)

AppendAll(d, key, msgs) ==
    IF msgs = <<>> THEN d
    ELSE IF key \in DOMAIN d THEN [d EXCEPT ![key] = @ \o msgs]
    ELSE d @@ (key :> msgs)

\* the messages of a loop over n records with K checks each, in the order the
\* loop appends them; C[i, j] is check j on record i
Collect(n, K, C) ==
    SelectSeq([x \in 1 .. (n * K) |-> C[((x - 1) \div K) + 1, ((x - 1) % K) + 1]],
              LAMBDA m : m.hit)

Msg(hit, kind, idx, what) == [hit |-> hit, kind |-> kind, idx |-> idx, what |-> what]

\* "@" in email
HasAt(email) == \E i \in DOMAIN email : email[i] = "@"

\* _validate_users
UsersErrors(users) ==
    LET required == <<"id", "email", "username">>
    IN Collect(Len(users), 3, [i \in 1 .. Len(users), j \in 1 .. 3 |->
           Msg(~HasKey(users[i], required[j]) \/ users[i][required[j]] = None,
               "Missing required field", i - 1, required[j])])

UsersWarnings(users) ==
    Collect(Len(users), 2, [i \in 1 .. Len(users), j \in 1 .. 2 |->
        IF j = 1
        THEN Msg(HasTruthy(users[i], "email") /\ ~HasAt(users[i].email.v),
                 "Invalid email format", i - 1, "email")
        ELSE Msg(HasTruthy(users[i], "age")
                 /\ ~(0 < users[i].age.v /\ users[i].age.v < 120),
                 "Suspicious age value", i - 1, "age")])

\* _validate_products
ProductsErrors(products) ==
    Collect(Len(products), 3, [i \in 1 .. Len(products), j \in 1 .. 3 |->
        CASE j = 1 -> Msg(~HasKey(products[i], "id"), "Missing", i - 1, "id")
          [] j = 2 -> Msg(~HasKey(products[i], "title") \/ ~Truthy(products[i].title),
                          "Missing", i - 1, "title")
          [] j = 3 -> Msg(HasTruthy(products[i], "price") /\ products[i].price.v < 0,
                          "Negative price", i - 1, "price")])

ProductsWarnings(products) ==
    Collect(Len(products), 2, [i \in 1 .. Len(products), j \in 1 .. 2 |->
        IF j = 1
        THEN Msg(HasTruthy(products[i], "stock") /\ products[i].stock.v < 0,
                 "Negative stock", i - 1, "stock")
        ELSE Msg(HasTruthy(products[i], "rating")
                 /\ ~(0 <= products[i].rating.v /\ products[i].rating.v <= 500),
                 "Rating out of range", i - 1, "rating")])

\* _validate_orders
OrdersErrors(orders) ==
    Collect(Len(orders), 3, [i \in 1 .. Len(orders), j \in 1 .. 3 |->
        CASE j = 1 -> Msg(~HasKey(orders[i], "id"), "Missing", i - 1, "id")
          [] j = 2 -> Msg(~HasKey(orders[i], "user_id"), "Missing", i - 1, "user_id")
          [] j = 3 -> Msg(HasTruthy(orders[i], "total") /\ orders[i].total.v < 0,
                          "Negative total", i - 1, "total")])

\* _validate_order_items
OrderItemsErrors(items) ==
    LET required == <<"order_id", "product_id", "quantity">>
    IN Collect(Len(items), 4, [i \in 1 .. Len(items), j \in 1 .. 4 |->
           IF j <= 3
           THEN Msg(~HasKey(items[i], required[j]), "Missing", i - 1, required[j])
           ELSE Msg(HasTruthy(items[i], "quantity") /\ items[i].quantity.v <= 0,
                    "Invalid quantity", i - 1, "quantity")])

\* _validate_addresses
AddressesErrors(addresses) ==
    Collect(Len(addresses), 1, [i \in 1 .. Len(addresses), j \in 1 .. 1 |->
        Msg(~HasKey(addresses[i], "id"), "Missing", i - 1, "id")])

AddressesWarnings(addresses) ==
    Collect(Len(addresses), 1, [i \in 1 .. Len(addresses), j \in 1 .. 1 |->
        Msg(~Truthy(Get(addresses[i].city)) /\ ~Truthy(Get(addresses[i].state)),
            "Missing both city and state", i - 1, "city")])

\* _validate_file: the errors and warnings it appends for one loaded file
FileErrors(filename, data) ==
    IF data = <<>> THEN <<>>
    ELSE CASE filename = "users" -> UsersErrors(data)
           [] filename = "products" -> ProductsErrors(data)
           [] filename = "orders" -> OrdersErrors(data)
           [] filename = "order_items" -> OrderItemsErrors(data)
           [] filename = "addresses" -> AddressesErrors(data)
           [] OTHER -> <<>>

FileWarnings(filename, data) ==
    IF data = <<>> THEN <<Msg(TRUE, "File is empty", 0, filename)>>
    ELSE CASE filename = "users" -> UsersWarnings(data)
           [] filename = "products" -> ProductsWarnings(data)
           [] filename = "addresses" -> AddressesWarnings(data)
           [] OTHER -> <<>>

\* files_to_check, in order
files_to_check == <<"users", "addresses", "banks", "companies", "categories",
                    "products", "product_tags", "product_images", "reviews",
                    "orders", "order_items">>

\* one foreign-key loop of _validate_referential_integrity:
\* `if row.get(fk) and row[fk] not in ids`
Dangling(rows, fk, targets, rel) ==
    LET ids == {targets[i].id : i \in DOMAIN targets}
    IN Collect(Len(rows), 1, [i \in 1 .. Len(rows), j \in 1 .. 1 |->
           Msg(Truthy(Get(rows[i][fk])) /\ rows[i][fk] \notin ids, rel, rows[i].id,
               rows[i][fk])])

\* the files _validate_referential_integrity opens
ri_files == {"users", "products", "orders", "order_items", "addresses", "categories"}

\* _validate_referential_integrity: the errors appended under
\* "referential_integrity"
ReferentialErrors(files) ==
    IF \E f \in ri_files : files[f] = Absent
    THEN <<Msg(TRUE, "Error checking FK", 0, "FileNotFoundError")>>
    ELSE Dangling(files.orders.v, "user_id", files.users.v, "orders.user_id")
         \o Dangling(files.order_items.v, "order_id", files.orders.v,
                     "order_items.order_id")
         \o Dangling(files.order_items.v, "product_id", files.products.v,
                     "order_items.product_id")
         \o Dangling(files.users.v, "address_id", files.addresses.v,
                     "users.address_id")
         \o Dangling(files.products.v, "category_id", files.categories.v,
                     "products.category_id")

\* the loop over files_to_check, from file number i on
RECURSIVE CheckFiles(_, _, _, _)
CheckFiles(i, files, errs, warns) ==
    IF i > Len(files_to_check) THEN [errors |-> errs, warnings |-> warns]
    ELSE LET f == files_to_check[i]
             key == f \o ".json"
         IN IF files[f] = Absent
            THEN CheckFiles(i + 1, files,
                            AppendAll(errs, key, <<Msg(TRUE, "File not found", 0, f)>>),
                            warns)
            ELSE CheckFiles(i + 1, files,
                            AppendAll(errs, key, FileErrors(f, files[f].v)),
                            AppendAll(warns, key, FileWarnings(f, files[f].v)))

\* results["passed"] = len(self.errors) == 0
Passed(errs) == Cardinality(DOMAIN errs) = 0

\* no key of the defaultdict yet
EmptyDict == [x \in {} |-> <<>>]

\* validate_all_files on a fresh DataValidator
ValidateAllFiles ==
    /\ consumer = "none"
    /\ NormalizerAtRest
    /\ consumer' = "validator"
    /\ LET c == CheckFiles(1, processed, EmptyDict, EmptyDict)
           e == AppendAll(c.errors, "referential_integrity",
                          ReferentialErrors(processed))
       IN /\ errors' = e
          /\ warnings' = c.warnings
          /\ results' = [errors |-> e, warnings |-> c.warnings, passed |-> Passed(e)]
    /\ UNCHANGED <<mongoVars, starVars, snowVars, rawVars, normVars, calVars, factVars, otherVars>>

-----------------------------------------------------------------------------
(* Fact-row money, in hundredths.  unit_price is p/100, discount_percentage  *)
(* is d/100 percent, so subtotal * (discount_pct / 100) is p*q*d / 10000     *)
(* hundredths.  round(x, 2) rounds the binary float: away from an exact tie  *)
(* it is the nearest hundredth; at an exact decimal tie the float lies on    *)
(* either side, so both neighbours are possible.                             *)

\* the hundredths round(num / den, 2) can return (den > 0), tie resolved by `up`
Round2(num, den, up) ==
    LET f == num \div den
        r == num - f * den
    IN IF 2 * r < den THEN f
       ELSE IF 2 * r > den THEN f + 1
       ELSE IF up THEN f + 1 ELSE f

\* the measures of one fact record
FactMoney(unit_price, quantity, discount_pct, upDisc, upTotal) ==
    LET subtotal == unit_price * quantity
        \* discount_amount and total, in 1/10000 of a hundredth
        discount_amount == subtotal * discount_pct
        total == subtotal * 10000 - discount_amount
    IN [subtotal |-> subtotal,
        discount_amount |-> Round2(discount_amount, 10000, upDisc),
        total_amount |-> Round2(total, 10000, upTotal)]

-----------------------------------------------------------------------------
(* StarSchemaLoader (load/load_star_schema.py)                              *)

\* the default range of load_dim_date
DefaultStartYear == 2020
DefaultEndYear == 2026

\* the rows of one month / one year / a range of years, in loop order
RECURSIVE DaysFrom(_, _, _)
DaysFrom(d, id, last) ==
    IF d[3] > last THEN <<>>
    ELSE <<DateRow(id, d)>> \o DaysFrom(<<d[1], d[2], d[3] + 1>>, id + 1, last)

RECURSIVE MonthsFrom(_, _, _)
MonthsFrom(y, m, id) ==
    IF m > 12 THEN <<>>
    ELSE DaysFrom(<<y, m, 1>>, id, DaysInMonth(y, m))
         \o MonthsFrom(y, m + 1, id + DaysInMonth(y, m))

RECURSIVE YearsFrom(_, _, _)
YearsFrom(y, last, id) ==
    IF y > last THEN <<>>
    ELSE MonthsFrom(y, 1, id)
         \o YearsFrom(y + 1, last, id + (IF IsLeap(y) THEN 366 ELSE 365))

\* _generate_date_dimension(start_year, end_year) as one value
GenerateDateDimension(sy, ey) == YearsFrom(sy, ey, 1)

\* what load_dim_date() inserts
DefaultDimDate == GenerateDateDimension(DefaultStartYear, DefaultEndYear)

\* the rows INSERT ... ON CONFLICT (key) DO NOTHING keeps: the first per key
FirstPerKey(rows, key) ==
    SelectSeq([i \in DOMAIN rows |-> [row |-> rows[i],
                  first |-> \A j \in 1 .. (i - 1) : rows[j][key] # rows[i][key]]],
              LAMBDA x : x.first)

Rows(marked) == [i \in DOMAIN marked |-> marked[i].row]

\* get_region
regions == <<
    [region |-> "Northeast",
     codes |-> {"NY", "PA", "NJ", "MA", "CT", "RI", "VT", "NH", "ME"}],
    [region |-> "Southeast",
     codes |-> {"FL", "GA", "SC", "NC", "VA", "WV", "KY", "TN", "AL", "MS", "AR", "LA"}],
    [region |-> "Midwest",
     codes |-> {"OH", "MI", "IN", "IL", "WI", "MN", "IA", "MO", "ND", "SD", "NE", "KS"}],
    [region |-> "Southwest", codes |-> {"TX", "OK", "NM", "AZ"}],
    [region |-> "West",
     codes |-> {"CA", "NV", "UT", "CO", "WY", "MT", "ID", "WA", "OR", "AK", "HI"}] >>

GetRegion(state_code) ==
    IF \E i \in DOMAIN regions : state_code \in regions[i].codes
    THEN regions[CHOOSE i \in DOMAIN regions :
                    /\ state_code \in regions[i].codes
                    /\ \A j \in 1 .. (i - 1) : state_code \notin regions[j].codes].region
    ELSE "Other"

\* the empty star tables
EmptyStar == [dim_date |-> <<>>, dim_users |-> <<>>, dim_products |-> <<>>,
              dim_location |-> <<>>, fact_orders |-> <<>>]

\* load_dim_users: the rows star_dim_users holds afterwards
StarDimUsers(users) ==
    Rows(FirstPerKey([i \in DOMAIN users |->
        [user_id |-> users[i].id, username |-> users[i].username,
         email |-> users[i].email, role |-> GetD(users[i].role, Str("user"))]],
        "user_id"))

\* load_dim_products
StarDimProducts(products, categories) ==
    Rows(FirstPerKey([i \in DOMAIN products |->
        [product_id |-> products[i].id, title |-> products[i].title,
         category |-> IF ById(categories, products[i].category_id) # None
                      THEN ById(categories, products[i].category_id).name
                      ELSE Chars(<<"U", "n", "k", "n", "o", "w", "n">>),
         brand |-> products[i].brand, price |-> products[i].price]],
        "product_id"))

\* load_dim_location: one row per address, location_id from the serial column
StarDimLocationMerged(addresses) ==
    LET firsts == SelectSeq([i \in DOMAIN addresses |->
                       [a |-> addresses[i],
                        first |-> \A j \in 1 .. (i - 1) :
                                     [addresses[j] EXCEPT !.id = None]
                                         # [addresses[i] EXCEPT !.id = None]]],
                     LAMBDA x : x.first)
    IN [i \in DOMAIN firsts |->
           [location_id |-> i,
            address_line |-> firsts[i].a.address_line,
            city |-> firsts[i].a.city,
            state |-> firsts[i].a.state,
            state_code |-> firsts[i].a.state_code,
            postal_code |-> firsts[i].a.postal_code,
            country |-> firsts[i].a.country,
            region |-> GetRegion(firsts[i].a.state_code.v),
            latitude |-> firsts[i].a.latitude,
            longitude |-> firsts[i].a.longitude]]

StarDimLocation(addresses) ==
    [i \in DOMAIN addresses |->
        [location_id |-> i,
         address_line |-> addresses[i].address_line,
         city |-> addresses[i].city,
         state |-> addresses[i].state,
         state_code |-> addresses[i].state_code,
         postal_code |-> addresses[i].postal_code,
         country |-> addresses[i].country,
         region |-> GetRegion(addresses[i].state_code.v),
         latitude |-> addresses[i].latitude,
         longitude |-> addresses[i].longitude]]

\* SQL `column = %s`: true only for two equal values that are not NULL
SqlEq(a, b) == a # None /\ b # None /\ a = b

\* _get_address_location_mapping: address id -> location_id of the first
\* dim_location row with the same city, state_code and postal_code; None if none
AddressLocation(addr, dim_location) ==
    LET hits == {i \in DOMAIN dim_location :
                    /\ SqlEq(dim_location[i].city, addr.city)
                    /\ SqlEq(dim_location[i].state_code, addr.state_code)
                    /\ SqlEq(dim_location[i].postal_code, addr.postal_code)}
    IN IF hits = {} THEN None
       ELSE Num(dim_location[CHOOSE i \in hits : \A j \in hits : i <= j].location_id)

\* _get_date_id: the date_id of the dim_date row of that date, else YYYYMMDD
GetDateIdAlwaysSynthesized(date, dim_date) == YYYYMMDD(date)

GetDateId(date, dim_date) ==
    IF \E i \in DOMAIN dim_date : dim_date[i].full_date = date
    THEN dim_date[CHOOSE i \in DOMAIN dim_date : dim_date[i].full_date = date].date_id
    ELSE YYYYMMDD(date)

\* items_by_order.get(order_id, [])
ItemsOfEveryOrder(order_items, order_id) == order_items

ItemsOf(order_items, order_id) ==
    SelectSeq(order_items, LAMBDA it : it.order_id = order_id)

\* unit_price * quantity needs numbers: None raises TypeError
ItemIsNumeric(item) == item.price.k = "int" /\ item.quantity.k = "int"

\* the fact record of one order item of one order (location is None for snowflake)
FactRecord(order, item, did, location_id, upDisc, upTotal) ==
    LET discount_pct == OrElse(item.discount_percentage, Num(0)).v
        m == FactMoney(item.price.v, item.quantity.v, discount_pct, upDisc, upTotal)
    IN [order_id |-> order.id,
        user_id |-> order.user_id,
        product_id |-> item.product_id,
        date_id |-> did,
        location_id |-> location_id,
        quantity |-> item.quantity.v,
        unit_price |-> item.price.v,
        discount_percentage |-> discount_pct,
        discount_amount |-> m.discount_amount,
        subtotal |-> m.subtotal,
        total_amount |-> m.total_amount,
        order_status |-> GetD(order.status, Str("completed"))]

RECURSIVE Concat(_)
Concat(ss) == IF ss = <<>> THEN <<>> ELSE Head(ss) \o Concat(Tail(ss))

\* {row["id"]: row[field]}.get(key): the field of the last row with that id
FieldById(rows, key, field) ==
    IF ById(rows, key) = None THEN None ELSE ById(rows, key)[field]

\* the fact records of StarSchemaLoader.load_fact_orders
StarFactRecords(orders, order_items, users, addresses, dim_date, dim_location, upDisc, upTotal) ==
    Concat([o \in DOMAIN orders |->
        LET order == orders[o]
            user_address == FieldById(users, order.user_id, "address_id")
            addr == ById(addresses, user_address)
            location_id == IF addr = None THEN None
                           ELSE AddressLocation(addr, dim_location)
            did == GetDateId(OrderDateOf(order), dim_date)
            items == ItemsOf(order_items, order.id)
        IN [i \in DOMAIN items |->
               FactRecord(order, items[i], did, location_id, upDisc, upTotal)]])

\* -- StarSchemaLoader.load_all, one load per step ------------------------------

StarBegin ==
    /\ consumer = "none"
    /\ NormalizerAtRest
    /\ consumer' = "star"
    /\ star_pc' = "dim_date"
    /\ star_db' = EmptyStar
    /\ UNCHANGED <<mongoVars, validVars, snowVars, rawVars, normVars, calVars, factVars, otherVars>>

StarLoadDimDate ==
    /\ consumer = "star" /\ star_pc = "dim_date"
    /\ star_db' = [star_db EXCEPT !.dim_date = <<DefaultStartYear, DefaultEndYear>>]
    /\ star_pc' = "dim_users"
    /\ UNCHANGED <<consumer, mongoVars, validVars, snowVars, rawVars, normVars, calVars, factVars, otherVars>>

StarLoadDimUsers ==
    /\ consumer = "star" /\ star_pc = "dim_users"
    /\ star_db' = [star_db EXCEPT
                     !.dim_users = StarDimUsers(LoadOrEmpty(processed, "users"))]
    /\ star_pc' = "dim_products"
    /\ UNCHANGED <<consumer, mongoVars, validVars, snowVars, rawVars, normVars, calVars, factVars, otherVars>>

StarLoadDimProducts ==
    /\ consumer = "star" /\ star_pc = "dim_products"
    /\ star_db' = [star_db EXCEPT
                     !.dim_products = StarDimProducts(LoadOrEmpty(processed, "products"),
                                                      LoadOrEmpty(processed, "categories"))]
    /\ star_pc' = "dim_location"
    /\ UNCHANGED <<consumer, mongoVars, validVars, snowVars, rawVars, normVars, calVars, factVars, otherVars>>

StarLoadDimLocation ==
    /\ consumer = "star" /\ star_pc = "dim_location"
    /\ star_db' = [star_db EXCEPT
                     !.dim_location = StarDimLocation(LoadOrEmpty(processed, "addresses"))]
    /\ star_pc' = "fact_orders"
    /\ UNCHANGED <<consumer, mongoVars, validVars, snowVars, rawVars, normVars, calVars, factVars, otherVars>>

\* the rows of the date dimension table, given what the table variable records
DimDateRows(loaded) ==
    IF loaded = <<>> THEN <<>>
    ELSE IF loaded = <<DefaultStartYear, DefaultEndYear>> THEN DefaultDimDate
    ELSE GenerateDateDimension(loaded[1], loaded[2])

StarLoadFactOrders ==
    /\ consumer = "star" /\ star_pc = "fact_orders"
    /\ LET orders == LoadOrEmpty(processed, "orders")
           order_items == LoadOrEmpty(processed, "order_items")
       IN IF orders = <<>> \/ order_items = <<>>
          THEN star_pc' = "done" /\ star_db' = star_db
          ELSE IF \E o \in DOMAIN orders :
                     \E it \in Range(ItemsOf(order_items, orders[o].id)) :
                         ~ItemIsNumeric(it)
          THEN star_pc' = "raised" /\ star_db' = star_db
          ELSE IF \A o \in DOMAIN orders : ItemsOf(order_items, orders[o].id) = <<>>
          THEN star_pc' = "raised" /\ star_db' = star_db   \* fact_records[0]: IndexError
          ELSE \E upDisc \in BOOLEAN, upTotal \in BOOLEAN :
                  /\ star_db' = [star_db EXCEPT !.fact_orders =
                        StarFactRecords(orders, order_items,
                                        LoadOrEmpty(processed, "users"),
                                        LoadOrEmpty(processed, "addresses"),
                                        DimDateRows(star_db.dim_date),
                                        star_db.dim_location, upDisc, upTotal)]
                  /\ star_pc' = "done"
    /\ UNCHANGED <<consumer, mongoVars, validVars, snowVars, rawVars, normVars, calVars, factVars, otherVars>>

-----------------------------------------------------------------------------
(* SnowflakeSchemaLoader (load/load_snowflake_schema.py)                    *)
(* The lookup caches are rebuilt from the tables at the end of every load,  *)
(* so a cache lookup is a lookup in the table.                              *)

EmptySnow == [dim_user_roles |-> <<>>, dim_states |-> <<>>, dim_cities |-> <<>>,
              dim_categories |-> <<>>, dim_brands |-> <<>>, dim_date |-> <<>>,
              dim_users |-> <<>>, dim_products |-> <<>>, fact_orders |-> <<>>]

\* the orders in which `for x in a_set` can visit the set
Orderings(S) ==
    {f \in [1 .. Cardinality(S) -> S] : \A i, j \in DOMAIN f : f[i] = f[j] => i = j}

\* cache.get(key): the id column of the row whose key column is `key`, else None
CacheGet(table, keycol, key, idcol) ==
    IF \E i \in DOMAIN table : table[i][keycol] = key
    THEN Num(table[CHOOSE i \in DOMAIN table : table[i][keycol] = key][idcol])
    ELSE None

\* the roles load_dim_user_roles collects
UserRoles(users) ==
    {GetD(users[i].role, Str("user")) : i \in
        {j \in DOMAIN users : Truthy(GetD(users[j].role, Str("user")))}}

\* load_dim_user_roles, visiting the set in `order`
SnowDimUserRoles(order) ==
    [i \in DOMAIN order |-> [role_id |-> i, role_name |-> order[i]]]

\* a dict filled by d[key(row)] = value(row) over the marked rows: one entry
\* per key in first-insertion order, holding the last value written
DictOf(entries) ==
    LET firsts == SelectSeq([i \in DOMAIN entries |->
                        [e |-> entries[i],
                         first |-> \A j \in 1 .. (i - 1) : entries[j].key # entries[i].key]],
                     LAMBDA x : x.first)
    IN [n \in DOMAIN firsts |->
          LET key == firsts[n].e.key
              last == CHOOSE i \in DOMAIN entries :
                          /\ entries[i].key = key
                          /\ \A j \in DOMAIN entries : entries[j].key = key => j <= i
          IN [key |-> key, value |-> entries[last].value]]

\* load_dim_states
SnowDimStates(addresses) ==
    LET with == SelectSeq(addresses,
                   LAMBDA a : Truthy(Get(a.state_code)) /\ Truthy(Get(a.state)))
        states == DictOf([i \in DOMAIN with |->
                     [key |-> with[i].state_code, value |-> with[i].state]])
    IN [i \in DOMAIN states |->
          [state_id |-> i, state_code |-> states[i].key,
           state_name |-> states[i].value, region |-> GetRegion(states[i].key.v),
           country |-> "United States"]]

\* load_dim_cities, against the states loaded so far
SnowDimCitiesAnyState(addresses, dim_states) ==
    LET with == SelectSeq(addresses,
                   LAMBDA a : Truthy(Get(a.city)) /\ Truthy(Get(a.state_code)))
        cities == DictOf([i \in DOMAIN with |->
                     [key |-> <<with[i].city,
                                CacheGet(dim_states, "state_code",
                                         with[i].state_code, "state_id")>>,
                      value |-> with[i].city]])
    IN [i \in DOMAIN cities |->
          [city_id |-> i, city_name |-> cities[i].key[1],
           state_id |-> cities[i].key[2]]]

SnowDimCities(addresses, dim_states) ==
    LET with == SelectSeq(addresses,
                   LAMBDA a : /\ Truthy(Get(a.city)) /\ Truthy(Get(a.state_code))
                              /\ Truthy(CacheGet(dim_states, "state_code",
                                                 a.state_code, "state_id")))
        cities == DictOf([i \in DOMAIN with |->
                     [key |-> <<with[i].city,
                                CacheGet(dim_states, "state_code",
                                         with[i].state_code, "state_id")>>,
                      value |-> with[i].city]])
    IN [i \in DOMAIN cities |->
          [city_id |-> i, city_name |-> cities[i].key[1],
           state_id |-> cities[i].key[2]]]

\* city_cache.get((city_name, state_id))
CityCacheGet(dim_cities, city_name, state_id) ==
    IF \E i \in DOMAIN dim_cities :
          dim_cities[i].city_name = city_name /\ dim_cities[i].state_id = state_id
    THEN Num(dim_cities[CHOOSE i \in DOMAIN dim_cities :
                           /\ dim_cities[i].city_name = city_name
                           /\ dim_cities[i].state_id = state_id].city_id)
    ELSE None

\* rows given their serial id before ON CONFLICT (key) DO NOTHING drops the
\* later rows of a key
Serial(rows, idcol) == [i \in DOMAIN rows |-> rows[i] @@ (idcol :> i)]

\* load_dim_categories (categories is not empty)
SnowDimCategories(categories) ==
    Rows(FirstPerKey(Serial([i \in DOMAIN categories |->
        [category_name |-> Get(categories[i].name),
         category_slug |-> Get(categories[i].slug)]], "category_id"),
        "category_slug"))

\* the brands load_dim_brands collects
Brands(products) ==
    {products[i].brand : i \in {j \in DOMAIN products : Truthy(Get(products[j].brand))}}

\* load_dim_brands, visiting the set in `order` (the set is not empty)
SnowDimBrands(order) ==
    [i \in DOMAIN order |-> [brand_id |-> i, brand_name |-> order[i]]]

\* load_dim_users (users is not empty)
SnowDimUsers(users, addresses, db) ==
    Rows(FirstPerKey([i \in DOMAIN users |->
        LET address == ById(addresses, users[i].address_id)
            city_name == IF address = None THEN None ELSE Get(address.city)
            state_code == IF address = None THEN None ELSE Get(address.state_code)
            state_id == CacheGet(db.dim_states, "state_code", state_code, "state_id")
        IN [user_id |-> users[i].id, username |-> users[i].username,
            email |-> users[i].email,
            role_id |-> CacheGet(db.dim_user_roles, "role_name",
                                 GetD(users[i].role, Str("user")), "role_id"),
            city_id |-> IF Truthy(city_name) /\ Truthy(state_id)
                        THEN CityCacheGet(db.dim_cities, city_name, state_id)
                        ELSE None]],
        "user_id"))

\* load_dim_products looking the category up by its name, not its slug
SnowDimProductsCategoryByName(products, categories, db) ==
    Rows(FirstPerKey([i \in DOMAIN products |->
        LET category_name == FieldById(categories, products[i].category_id, "name")
        IN [product_id |-> products[i].id, title |-> products[i].title,
            category_id |-> CacheGet(db.dim_categories, "category_slug",
                                     category_name, "category_id"),
            brand_id |-> CacheGet(db.dim_brands, "brand_name",
                                  Get(products[i].brand), "brand_id"),
            price |-> products[i].price]],
        "product_id"))

\* load_dim_products (products is not empty)
SnowDimProducts(products, categories, db) ==
    Rows(FirstPerKey([i \in DOMAIN products |->
        LET category_slug == FieldById(categories, products[i].category_id, "slug")
        IN [product_id |-> products[i].id, title |-> products[i].title,
            category_id |-> CacheGet(db.dim_categories, "category_slug",
                                     category_slug, "category_id"),
            brand_id |-> CacheGet(db.dim_brands, "brand_name",
                                  Get(products[i].brand), "brand_id"),
            price |-> products[i].price]],
        "product_id"))

\* the fact records of SnowflakeSchemaLoader.load_fact_orders
SnowFactRecords(orders, order_items, dim_date, upDisc, upTotal) ==
    Concat([o \in DOMAIN orders |->
        LET order == orders[o]
            did == GetDateId(OrderDateOf(order), dim_date)
            items == ItemsOf(order_items, order.id)
        IN [i \in DOMAIN items |->
               FactRecord(order, items[i], did, None, upDisc, upTotal)]])

\* -- SnowflakeSchemaLoader.load_all, one load per step ----------------------

SnowOthers == <<consumer, mongoVars, validVars, starVars, rawVars, normVars, calVars, factVars, otherVars>>

\* load_all: load_all_subdimensions, load_all_dimensions, load_fact_orders
snow_load_order_users_early ==
    <<"dim_user_roles", "dim_states", "dim_cities", "dim_categories", "dim_users",
      "dim_brands", "dim_date", "dim_products", "fact_orders">>

snow_load_order ==
    <<"dim_user_roles", "dim_states", "dim_cities", "dim_categories", "dim_brands",
      "dim_date", "dim_users", "dim_products", "fact_orders">>

\* the load that follows `table` in load_all, "done" after the last
SnowNext(table) ==
    LET i == CHOOSE n \in DOMAIN snow_load_order : snow_load_order[n] = table
    IN IF i = Len(snow_load_order) THEN "done" ELSE snow_load_order[i + 1]

\* a load was called and returned: its table is written and the next load is due
SnowLoaded(table, rows) ==
    /\ snow_db' = [snow_db EXCEPT ![table] = rows]
    /\ snow_log' = snow_log \o <<<<"call", table>>, <<"return", table>>>>
    /\ snow_pc' = SnowNext(table)

\* a load was called and raised: load_all is left
SnowRaised(table) ==
    /\ snow_pc' = "raised"
    /\ snow_log' = Append(snow_log, <<"call", table>>)
    /\ UNCHANGED snow_db

SnowBegin ==
    /\ consumer = "none"
    /\ NormalizerAtRest
    /\ consumer' = "snow"
    /\ snow_pc' = snow_load_order[1]
    /\ snow_db' = EmptySnow
    /\ snow_log' = <<>>
    /\ UNCHANGED <<mongoVars, validVars, starVars, rawVars, normVars, calVars, factVars, otherVars>>

SnowLoadDimUserRoles ==
    /\ consumer = "snow" /\ snow_pc = "dim_user_roles"
    /\ \E order \in Orderings(UserRoles(LoadOrEmpty(processed, "users"))) :
          SnowLoaded("dim_user_roles", SnowDimUserRoles(order))
    /\ UNCHANGED SnowOthers

SnowLoadDimStates ==
    /\ consumer = "snow" /\ snow_pc = "dim_states"
    /\ SnowLoaded("dim_states", SnowDimStates(LoadOrEmpty(processed, "addresses")))
    /\ UNCHANGED SnowOthers

SnowLoadDimCities ==
    /\ consumer = "snow" /\ snow_pc = "dim_cities"
    /\ SnowLoaded("dim_cities",
                  SnowDimCities(LoadOrEmpty(processed, "addresses"), snow_db.dim_states))
    /\ UNCHANGED SnowOthers

SnowLoadDimCategories ==
    /\ consumer = "snow" /\ snow_pc = "dim_categories"
    /\ IF LoadOrEmpty(processed, "categories") = <<>>
       THEN SnowRaised("dim_categories")   \* dim_categories[0]: IndexError
       ELSE SnowLoaded("dim_categories",
                       SnowDimCategories(LoadOrEmpty(processed, "categories")))
    /\ UNCHANGED SnowOthers

SnowLoadDimBrands ==
    /\ consumer = "snow" /\ snow_pc = "dim_brands"
    /\ IF Brands(LoadOrEmpty(processed, "products")) = {}
       THEN SnowRaised("dim_brands")   \* dim_brands[0]: IndexError
       ELSE \E order \in Orderings(Brands(LoadOrEmpty(processed, "products"))) :
               SnowLoaded("dim_brands", SnowDimBrands(order))
    /\ UNCHANGED SnowOthers

SnowLoadDimDate ==
    /\ consumer = "snow" /\ snow_pc = "dim_date"
    /\ SnowLoaded("dim_date", <<DefaultStartYear, DefaultEndYear>>)
    /\ UNCHANGED SnowOthers

SnowLoadDimUsers ==
    /\ consumer = "snow" /\ snow_pc = "dim_users"
    /\ IF LoadOrEmpty(processed, "users") = <<>>
       THEN SnowRaised("dim_users")   \* dim_users[0]: IndexError
       ELSE SnowLoaded("dim_users",
                       SnowDimUsers(LoadOrEmpty(processed, "users"),
                                    LoadOrEmpty(processed, "addresses"), snow_db))
    /\ UNCHANGED SnowOthers

SnowLoadDimProducts ==
    /\ consumer = "snow" /\ snow_pc = "dim_products"
    /\ IF LoadOrEmpty(processed, "products") = <<>>
       THEN SnowRaised("dim_products")   \* dim_products[0]: IndexError
       ELSE SnowLoaded("dim_products",
                       SnowDimProducts(LoadOrEmpty(processed, "products"),
                                       LoadOrEmpty(processed, "categories"), snow_db))
    /\ UNCHANGED SnowOthers

SnowLoadFactOrders ==
    /\ consumer = "snow" /\ snow_pc = "fact_orders"
    /\ LET orders == LoadOrEmpty(processed, "orders")
           order_items == LoadOrEmpty(processed, "order_items")
       IN IF orders = <<>> \/ order_items = <<>>
          THEN SnowLoaded("fact_orders", <<>>)
          ELSE IF \E o \in DOMAIN orders :
                     \E it \in Range(ItemsOf(order_items, orders[o].id)) :
                         ~ItemIsNumeric(it)
          THEN SnowRaised("fact_orders")
          ELSE IF \A o \in DOMAIN orders : ItemsOf(order_items, orders[o].id) = <<>>
          THEN SnowRaised("fact_orders")   \* fact_records[0]: IndexError
          ELSE \E upDisc \in BOOLEAN, upTotal \in BOOLEAN :
                  SnowLoaded("fact_orders",
                             SnowFactRecords(orders, order_items,
                                             DimDateRows(snow_db.dim_date),
                                             upDisc, upTotal))
    /\ UNCHANGED SnowOthers

-----------------------------------------------------------------------------
(* One fact record's measures on their own                                  *)

MaxQuantity == 3

\* unit prices and discount percentages, in hundredths
UnitPrices == {1, 5, 99, 1000, 1099}
DiscountPcts == {0, 500, 1000, 1250, 5000}

FactIdle == fact_in = <<>> /\ fact_out = <<>>

\* the measures of a fact record for one order item
ComputeFactMoney ==
    /\ fact_in # <<>> /\ fact_out = <<>>
    /\ \E upDisc \in BOOLEAN, upTotal \in BOOLEAN :
          fact_out' = <<FactMoney(fact_in[1], fact_in[2], fact_in[3], upDisc, upTotal)>>
    /\ UNCHANGED <<fact_in, calVars, rawVars, normVars, consVars, otherVars>>

-----------------------------------------------------------------------------
(* PostgresDataLoader (load/load_postgres.py)                               *)
(* The connection is not in autocommit mode: the rows sent by execute stay  *)
(* pending until commit() makes them visible, and rollback() drops them.    *)

\* a load order that puts companies before the addresses they refer to
pg_load_order_companies_first ==
    <<"banks", "companies", "addresses", "categories", "users", "products",
      "product_tags", "product_images", "reviews", "orders", "order_items">>

pg_load_order ==
    <<"addresses", "banks", "categories", "companies", "users", "products",
      "product_tags", "product_images", "reviews", "orders", "order_items">>

\* data of at most this many records is inserted one record per statement
one_by_one_limit == 10
batch_size == 100

PgEmptyDb == [t \in Range(pg_load_order) |-> <<>>]

PgIdle ==
    /\ pg_pc = "idle" /\ pg_pos = 0 /\ pg_pending = <<>>
    /\ pg_dir = [t \in Range(pg_load_order) |-> Absent]
    /\ pg_db = PgEmptyDb /\ pg_timing = <<>>

\* _load_json of the loader: a missing file reads as []
PgLoadJson(filename) == IF pg_dir[filename] = Absent THEN <<>> ELSE pg_dir[filename].v

PgTable == pg_load_order[pg_pos]
PgData == PgLoadJson(PgTable)

\* the records one execute / execute_values call sends
PgChunk(data, sent) ==
    IF Len(data) <= one_by_one_limit
    THEN SubSeq(data, sent + 1, sent + 1)
    ELSE SubSeq(data, sent + 1, IF sent + batch_size < Len(data) THEN sent + batch_size ELSE Len(data))

PgLoadAllData ==
    /\ pg_pc = "idle"
    /\ pg_pc' = "loop" /\ pg_pos' = 1 /\ pg_timing' = <<>>
    /\ UNCHANGED <<pg_dir, pg_pending, pg_db>>
    /\ UNCHANGED <<calVars, rawVars, normVars, consVars, factVars, odVars, rerunVars, pipeVars, genVars, snowCalVars>>

\* `if not data: continue`
PgNoData ==
    /\ pg_pc = "loop" /\ pg_pos <= Len(pg_load_order)
    /\ PgData = <<>>
    /\ pg_pos' = pg_pos + 1
    /\ UNCHANGED <<pg_pc, pg_dir, pg_pending, pg_db, pg_timing>>
    /\ UNCHANGED <<calVars, rawVars, normVars, consVars, factVars, odVars, rerunVars, pipeVars, genVars, snowCalVars>>

\* one INSERT statement (one record, or one batch) goes through
PgExecute ==
    /\ pg_pc = "loop" /\ pg_pos <= Len(pg_load_order)
    /\ PgData # <<>> /\ Len(pg_pending) < Len(PgData)
    /\ pg_pending' = pg_pending \o PgChunk(PgData, Len(pg_pending))
    /\ UNCHANGED <<pg_pc, pg_dir, pg_pos, pg_db, pg_timing>>
    /\ UNCHANGED <<calVars, rawVars, normVars, consVars, factVars, odVars, rerunVars, pipeVars, genVars, snowCalVars>>

\* the statement raises: rollback() and re-raise, which ends load_all_data
PgExecuteFails ==
    /\ pg_pc = "loop" /\ pg_pos <= Len(pg_load_order)
    /\ PgData # <<>> /\ Len(pg_pending) < Len(PgData)
    /\ pg_pending' = <<>>
    /\ pg_pc' = "raised"
    /\ UNCHANGED <<pg_dir, pg_pos, pg_db, pg_timing>>
    /\ UNCHANGED <<calVars, rawVars, normVars, consVars, factVars, odVars, rerunVars, pipeVars, genVars, snowCalVars>>

\* commit() after the last statement of the table, then the timing entry
PgCommit ==
    /\ pg_pc = "loop" /\ pg_pos <= Len(pg_load_order)
    /\ PgData # <<>> /\ Len(pg_pending) = Len(PgData)
    /\ pg_db' = [pg_db EXCEPT ![PgTable] = @ \o pg_pending]
    /\ pg_pending' = <<>>
    /\ pg_timing' = Append(pg_timing,
                           [table |-> PgTable, records |-> Len(PgData),
                            method |-> IF Len(PgData) <= one_by_one_limit
                                       THEN "one-by-one" ELSE "batch"])
    /\ pg_pos' = pg_pos + 1
    /\ UNCHANGED <<pg_pc, pg_dir>>
    /\ UNCHANGED <<calVars, rawVars, normVars, consVars, factVars, odVars, rerunVars, pipeVars, genVars, snowCalVars>>

\* commit() itself raises: the same handler rolls back and re-raises
PgCommitFails ==
    /\ pg_pc = "loop" /\ pg_pos <= Len(pg_load_order)
    /\ PgData # <<>> /\ Len(pg_pending) = Len(PgData)
    /\ pg_pending' = <<>>
    /\ pg_pc' = "raised"
    /\ UNCHANGED <<pg_dir, pg_pos, pg_db, pg_timing>>
    /\ UNCHANGED <<calVars, rawVars, normVars, consVars, factVars, odVars, rerunVars, pipeVars, genVars, snowCalVars>>

PgReturn ==
    /\ pg_pc = "loop" /\ pg_pos = Len(pg_load_order) + 1
    /\ pg_pc' = "returned"
    /\ UNCHANGED <<pg_dir, pg_pos, pg_pending, pg_db, pg_timing>>
    /\ UNCHANGED <<calVars, rawVars, normVars, consVars, factVars, odVars, rerunVars, pipeVars, genVars, snowCalVars>>

\* ---- _generate_order_date on its own
OdIdle == od_now = None /\ od_out = None

\* one call, given the clock reading and the four random draws
GenerateOrderDateCall(days_ago, hour, minute, second) ==
    /\ od_now # None /\ od_out = None
    /\ od_out' = GenerateOrderDate(od_now.date, days_ago, hour, minute, second)
    /\ UNCHANGED <<od_now, calVars, rawVars, normVars, consVars, factVars, pgVars, rerunVars, pipeVars, genVars, snowCalVars>>

RerunIdle == first_run = None

PipeIdle == pipe_pc = "idle" /\ pipe_i = 0 /\ pipe_results = <<>> /\ pipe_log = <<>>

GenIdle == gen = None /\ gen_source = None /\ test_files = <<>>

OthersIdle == PgIdle /\ OdIdle /\ RerunIdle /\ PipeIdle /\ GenIdle /\ SnowCalIdle

-----------------------------------------------------------------------------
(* TestDataGenerator (generate/test_data_generator.py): generate_all_test_data *)
(* calls generate_test_users, generate_test_products and generate_test_orders *)
(* with one target_count; each replicates the rows of its source file.        *)
(* A row keeps the fields the functions number or refer to; the random phone, *)
(* ssn, barcode, stock and the rescaled amounts are not carried.              *)

first_test_id == 10000

\* random.randint(10000, 10000 + target_count): both ends can be drawn
RandomUserIds(target_count) == first_test_id .. (first_test_id + target_count)

SourceFileOf(fn) ==
    CASE fn = "generate_test_users" -> "users.json"
      [] fn = "generate_test_products" -> "products.json"
      [] fn = "generate_test_orders" -> "orders.json"

\* the state of a generate_test_* call before its loops: the source is read,
\* the list is empty, the id counter is 10000 and
\* replications_needed = (target_count // len(original)) + 1, which raises
\* ZeroDivisionError for an empty source
GenCall(fn, target_count, source) ==
    IF Len(source[SourceFileOf(fn)]) = 0
    THEN [fn |-> fn, at |-> "ZeroDivisionError", target_count |-> target_count]
    ELSE [fn |-> fn, at |-> "loop", target_count |-> target_count,
          replications_needed |-> (target_count \div Len(source[SourceFileOf(fn)])) + 1,
          replication |-> 0, i |-> 1, rows |-> <<>>, next_id |-> first_test_id]

\* the loops go on: range(replications_needed) is not used up and neither
\* `if len(test_...) >= target_count: break` applies
GenInLoop(fn) ==
    /\ gen # None
    /\ IF gen = None THEN FALSE
       ELSE /\ gen.fn = fn
            /\ gen.at = "loop"
            /\ gen.replication < gen.replications_needed
            /\ Len(gen.rows) < gen.target_count

GenLoopOver(fn) ==
    /\ gen # None
    /\ IF gen = None THEN FALSE
       ELSE /\ gen.fn = fn
            /\ gen.at = "loop"
            /\ ~(gen.replication < gen.replications_needed
                   /\ Len(gen.rows) < gen.target_count)

\* the original row of this iteration
GenOriginal == gen_source[SourceFileOf(gen.fn)][gen.i]

\* test_....append(row); ..._id += 1; on to the next original, or replication
GenAppend(row) ==
    [gen EXCEPT !.rows = Append(@, row),
                !.next_id = @ + 1,
                !.i = IF gen.i = Len(gen_source[SourceFileOf(gen.fn)]) THEN 1 ELSE @ + 1,
                !.replication = IF gen.i = Len(gen_source[SourceFileOf(gen.fn)])
                                THEN @ + 1 ELSE @]

\* json.dump(test_...[:target_count], f)
GenWritten(filename) ==
    (filename :> SubSeq(gen.rows, 1, IF Len(gen.rows) < gen.target_count
                                     THEN Len(gen.rows) ELSE gen.target_count))
    @@ test_files

GenFrame ==
    UNCHANGED <<calVars, rawVars, normVars, consVars, factVars, pgVars, odVars,
                rerunVars, pipeVars, snowCalVars>>

\* generate_all_test_data(target_count) over a processed directory; it enters
\* generate_test_users
GenerateAllTestData(target_count, source) ==
    /\ gen = None
    /\ gen_source' = source
    /\ gen' = GenCall("generate_test_users", target_count, source)
    /\ UNCHANGED test_files
    /\ GenFrame

\* one iteration of generate_test_users' loops
GenerateTestUsersStep ==
    /\ GenInLoop("generate_test_users")
    /\ gen' = GenAppend([GenOriginal EXCEPT !.id = gen.next_id,
                                            !.username = <<GenOriginal.username, gen.next_id>>,
                                            !.email = <<"test_user", gen.next_id>>])
    /\ UNCHANGED <<gen_source, test_files>>
    /\ GenFrame

\* generate_test_users writes its file and returns; generate_test_products starts
GenerateTestUsersReturn ==
    /\ GenLoopOver("generate_test_users")
    /\ test_files' = GenWritten("test_users.json")
    /\ gen' = GenCall("generate_test_products", gen.target_count, gen_source)
    /\ UNCHANGED gen_source
    /\ GenFrame

\* one iteration of generate_test_products' loops
GenerateTestProductsStep ==
    /\ GenInLoop("generate_test_products")
    /\ gen' = GenAppend([GenOriginal EXCEPT !.id = gen.next_id,
                                            !.title = <<GenOriginal.title, gen.replication + 1>>,
                                            !.sku = gen.next_id])
    /\ UNCHANGED <<gen_source, test_files>>
    /\ GenFrame

\* generate_test_products writes its file and returns; generate_test_orders starts
GenerateTestProductsReturn ==
    /\ GenLoopOver("generate_test_products")
    /\ test_files' = GenWritten("test_products.json")
    /\ gen' = GenCall("generate_test_orders", gen.target_count, gen_source)
    /\ UNCHANGED gen_source
    /\ GenFrame

\* one iteration of generate_test_orders' loops, with the user id it drew
GenerateTestOrdersStep ==
    /\ GenInLoop("generate_test_orders")
    /\ \E user_id \in RandomUserIds(gen.target_count) :
          gen' = GenAppend([GenOriginal EXCEPT !.id = gen.next_id, !.user_id = user_id])
    /\ UNCHANGED <<gen_source, test_files>>
    /\ GenFrame

\* generate_test_orders writes its file and returns, and so does
\* generate_all_test_data
GenerateTestOrdersReturn ==
    /\ GenLoopOver("generate_test_orders")
    /\ test_files' = GenWritten("test_orders.json")
    /\ gen' = [fn |-> "generate_all_test_data", at |-> "returned",
               target_count |-> gen.target_count]
    /\ UNCHANGED gen_source
    /\ GenFrame

\* the ZeroDivisionError of an empty source file leaves generate_all_test_data
GenerateRaises ==
    /\ gen # None
    /\ IF gen = None THEN FALSE ELSE gen.at = "ZeroDivisionError"
    /\ gen' = [fn |-> "generate_all_test_data", at |-> "raised",
               target_count |-> gen.target_count]
    /\ UNCHANGED <<gen_source, test_files>>
    /\ GenFrame

-----------------------------------------------------------------------------
(* pipeline.main (pipeline.py): the five steps, each a function that catches  *)
(* its own exception and returns False                                        *)

\* the step list with the two loads swapped
steps_mongo_before_postgres ==
    <<"Extract", "Transform", "Load MongoDB", "Load PostgreSQL", "Cache Redis">>

steps == <<"Extract", "Transform", "Load PostgreSQL", "Load MongoDB", "Cache Redis">>

PipeStep == steps[pipe_i]

\* main() up to the loop over the steps
PipelineMain ==
    /\ pipe_pc = "idle"
    /\ pipe_pc' = "loop" /\ pipe_i' = 1 /\ pipe_results' = <<>>
    /\ UNCHANGED <<pipe_log, calVars, rawVars, normVars, consVars, factVars,
                   pgVars, odVars, rerunVars, genVars, snowCalVars>>

\* `success = step_func()` is entered; run_load_postgres builds its loader over
\* the processed directory as it is now
PipelineCallStep ==
    /\ pipe_pc = "loop" /\ pipe_i <= Len(steps)
    /\ pipe_pc' = "step"
    /\ pipe_log' = Append(pipe_log, <<"start", PipeStep>>)
    /\ pg_dir' = IF PipeStep = "Load PostgreSQL" THEN processed ELSE pg_dir
    /\ UNCHANGED <<pipe_i, pipe_results, pg_pc, pg_pos, pg_pending, pg_db, pg_timing,
                   calVars, rawVars, normVars, consVars, factVars,
                   odVars, rerunVars, genVars, snowCalVars>>

\* the step at hand may return this value now: Transform and the PostgreSQL load
\* return what their work came to, MongoDB True once the documents are built; a
\* step that talks to the API or a server can fail at any point before
StepMayReturn(success) ==
    CASE PipeStep = "Transform" -> IF success THEN pc = "done" ELSE pc = "raised"
      [] PipeStep = "Load PostgreSQL" ->
            IF success THEN pg_pc = "returned" ELSE pg_pc \in {"idle", "raised"}
      [] PipeStep = "Load MongoDB" ->
            IF success THEN consumer = "mongo" ELSE consumer = "none"
      [] OTHER -> TRUE

\* the step returns True: `results[step_name] = success`, next iteration
\* (run_extract has saved the three raw files)
PipelineStepSucceeds ==
    /\ pipe_pc = "step" /\ StepMayReturn(TRUE)
    /\ pipe_results' = Append(pipe_results, <<PipeStep, TRUE>>)
    /\ pipe_log' = Append(pipe_log, <<"return", PipeStep, TRUE>>)
    /\ raw_files' = IF PipeStep = "Extract" THEN RawFileNames ELSE raw_files
    /\ pipe_i' = pipe_i + 1
    /\ pipe_pc' = "loop"
    /\ UNCHANGED <<users_raw, products_raw, carts_raw, calVars, normVars, consVars,
                   factVars, pgVars, odVars, rerunVars, genVars, snowCalVars>>

\* the step returns False: `results[step_name] = success`, sys.exit(1)
PipelineStepFails ==
    /\ pipe_pc = "step" /\ StepMayReturn(FALSE)
    /\ pipe_results' = Append(pipe_results, <<PipeStep, FALSE>>)
    /\ pipe_log' = pipe_log \o <<<<"return", PipeStep, FALSE>>, <<"exit", 1>>>>
    /\ pipe_pc' = "exited"
    /\ UNCHANGED <<pipe_i, calVars, rawVars, normVars, consVars, factVars,
                   pgVars, odVars, rerunVars, genVars, snowCalVars>>

\* the loop is exhausted: the final summary, main returns
PipelineComplete ==
    /\ pipe_pc = "loop" /\ pipe_i = Len(steps) + 1
    /\ pipe_pc' = "complete"
    /\ UNCHANGED <<pipe_i, pipe_results, pipe_log, calVars, rawVars, normVars, consVars,
                   factVars, pgVars, odVars, rerunVars, genVars, snowCalVars>>

\* the step whose function is running
InStep(name) == pipe_pc = "step" /\ PipeStep = name

-----------------------------------------------------------------------------
(* Raw records the runs are fed                                             *)

NoAddress == [address |-> Absent, city |-> Absent, state |-> Absent,
              stateCode |-> Absent, postalCode |-> Absent, country |-> Absent,
              coordinates |-> Absent]

\* {} as an address
EmptyAddress == Obj(NoAddress)

AddrAlbany == Obj([address |-> Str("1 Main St"), city |-> Str("Albany"),
                   state |-> Str("New York"), stateCode |-> Str("NY"),
                   postalCode |-> Str("12207"), country |-> Absent,
                   coordinates |-> Obj([lat |-> Num(42), lng |-> Num(-73)])])

AddrAustin == Obj([address |-> Str("9 Elm Rd"), city |-> Str("Austin"),
                   state |-> Str("Texas"), stateCode |-> Str("TX"),
                   postalCode |-> Str("73301"), country |-> Str("USA"),
                   coordinates |-> Obj([lat |-> Num(30), lng |-> Absent])])

\* a state code without a state name
AddrNoState == Obj([address |-> Absent, city |-> Str("Albany"),
                    state |-> Absent, stateCode |-> Str("NY"),
                    postalCode |-> Str("12207"), country |-> Absent,
                    coordinates |-> Absent])

\* a state code that no region lists
AddrCapital == Obj([address |-> Str("2 K St"), city |-> Str("Washington"),
                    state |-> Str("District of Columbia"), stateCode |-> Str("DC"),
                    postalCode |-> Str("20001"), country |-> Absent,
                    coordinates |-> Absent])

\* no state code at all
AddrCityOnly == Obj([address |-> Absent, city |-> Str("Paris"), state |-> Absent,
                     stateCode |-> Absent, postalCode |-> Absent,
                     country |-> Str("France"), coordinates |-> Absent])

\* the state code of AddrAlbany under another state name
AddrBuffalo == Obj([address |-> Str("7 Lake Dr"), city |-> Str("Buffalo"),
                    state |-> Str("NY State"), stateCode |-> Str("NY"),
                    postalCode |-> Str("14201"), country |-> Absent,
                    coordinates |-> Absent])

\* "postalCode": null
AddrNullPostal == Obj([address |-> Str("5 Oak Ave"), city |-> Str("Boston"),
                       state |-> Str("Massachusetts"), stateCode |-> Str("MA"),
                       postalCode |-> None, country |-> Absent,
                       coordinates |-> Absent])

Bank1 == Obj([cardNumber |-> Str("4111"), iban |-> Str("DE89")])
BankNoIban == Obj([cardNumber |-> Str("5500"), iban |-> Absent])

Company(address) == Obj([name |-> Str("Acme"), title |-> Str("Engineer"),
                         address |-> address])
EmptyCompany == Obj([name |-> Absent, title |-> Absent, address |-> Absent])

GoodEmail == Chars(<<"a", "@", "b">>)
BadEmail == Chars(<<"a", "b">>)

RawUser(id, email, age, role, address, bank, company) ==
    [id |-> Num(id), firstName |-> Str("Ann"), lastName |-> Absent,
     age |-> age, email |-> email, username |-> Str("ann"), role |-> role,
     address |-> address, bank |-> bank, company |-> company]

Smartphones == <<"S", "m", "a", "r", "t", "p", "h", "o", "n", "e", "s">>
smartphones == <<"s", "m", "a", "r", "t", "p", "h", "o", "n", "e", "s">>
HomeDecor == <<"H", "o", "m", "e", " ", "D", "e", "c", "o", "r">>
home_decor == <<"h", "o", "m", "e", "-", "d", "e", "c", "o", "r">>

RawProduct(id, title, category, price, brand, tags, images, reviews) ==
    [id |-> Num(id), title |-> title, category |-> category, price |-> price,
     rating |-> Num(450), stock |-> Num(5), brand |-> brand,
     thumbnail |-> Str("t.png"), tags |-> tags, images |-> images,
     reviews |-> reviews]

RawItem(id, quantity, price, discount) ==
    [id |-> id, quantity |-> quantity, price |-> price,
     discountPercentage |-> discount, total |-> Absent]

RawCart(id, userId, total, products) ==
    [id |-> Num(id), userId |-> userId, total |-> total, products |-> products]

\* how many raw records of a kind a run reads
MaxUsers == 2
MaxProducts == 2
MaxCarts == 2

-----------------------------------------------------------------------------
(* The runs                                                                 *)

NormIdle ==
    /\ users_raw = <<>> /\ products_raw = <<>> /\ carts_raw = <<>>
    /\ pc = "idle"
    /\ address_id = 1 /\ bank_id = 1 /\ company_id = 1 /\ category_id = 1
    /\ review_id = 1 /\ product_tag_id = 1 /\ product_image_id = 1
    /\ order_item_id = 1
    /\ category_cache = <<>>
    /\ tables = EmptyTables
    /\ processed = [t \in TableNames |-> Absent]

ConsIdle ==
    /\ consumer = "none"
    /\ users_docs = <<>> /\ products_docs = <<>> /\ orders_docs = <<>>
    /\ errors = EmptyDict /\ warnings = EmptyDict /\ results = None
    /\ star_pc = "idle" /\ star_db = EmptyStar
    /\ snow_pc = "idle" /\ snow_db = EmptySnow /\ snow_log = <<>>

\* a fresh DataNormalizer over a raw directory holding some of the three files
Init ==
    /\ CalIdle /\ FactIdle /\ NormIdle /\ ConsIdle /\ OthersIdle
    /\ raw_files \in SUBSET RawFileNames

UsersPhase(U) ==
    \/ \E u \in U : Len(users_raw) < MaxUsers /\ NormalizeUserStep(u)
    \/ UsersDone

ProductsPhase(P) ==
    \/ \E p \in P : Len(products_raw) < MaxProducts /\ NormalizeProductStep(p)
    \/ ProductsDone

CartsPhase(C, Nows, DaysAgo, Hours, Minutes, Seconds, Statuses) ==
    \/ \E c \in C, now \in Nows, days_ago \in DaysAgo, hour \in Hours,
          minute \in Minutes, second \in Seconds, status \in Statuses :
          /\ Len(carts_raw) < MaxCarts
          /\ NormalizeCartStep(c, now, days_ago, hour, minute, second, status)
    \/ NormalizeAllReturn

\* ---- the calendar builder on its own
InitDate == /\ CalIdle /\ FactIdle /\ NormIdle /\ ConsIdle /\ OthersIdle /\ raw_files = {}
NextDate == GenerateBegin \/ GenerateStep \/ GenerateReturn
SpecDate == InitDate /\ [][NextDate]_vars

\* ---- the fact measures on their own
InitMoney ==
    /\ CalIdle /\ NormIdle /\ ConsIdle /\ OthersIdle /\ raw_files = {}
    /\ fact_in \in UnitPrices \X (1 .. MaxQuantity) \X DiscountPcts
    /\ fact_out = <<>>
NextMoney == ComputeFactMoney
SpecMoney == InitMoney /\ [][NextMoney]_vars

\* ---- products of every category spelling
CatProducts ==
    {RawProduct(id, Str("Phone"), c, Num(1000), Absent, Absent, Absent, Absent) :
        id \in {1, 2},
        c \in {Absent, None, Chars(Smartphones), Chars(smartphones),
               Chars(HomeDecor), Chars(home_decor)}}

NextCat ==
    \/ NormalizeAllBegin
    \/ UsersDone
    \/ \E p \in CatProducts : Len(products_raw) < MaxProducts /\ NormalizeProductStep(p)
    \/ ProductsDone
    \/ NormalizeAllReturn
SpecCat == Init /\ [][NextCat]_vars

\* ---- users with every shape of nested object, read back as documents
DocUsers ==
    {RawUser(1, GoodEmail, Num(30), Str("admin"), AddrAlbany, Bank1, Company(AddrAustin)),
     RawUser(2, GoodEmail, Num(30), Absent, Absent, Absent, Absent),
     RawUser(2, GoodEmail, Absent, Absent, EmptyAddress, BankNoIban, EmptyCompany),
     RawUser(1, GoodEmail, Absent, Str("user"), None, Bank1, Company(Absent)),
     RawUser(3, GoodEmail, Absent, Absent, AddrNoState, Absent, Company(EmptyAddress)),
     RawUser(3, GoodEmail, Absent, Absent, Absent, Absent, Company(AddrAlbany))}

DocProducts ==
    {RawProduct(1, Str("Phone"), Chars(Smartphones), Num(1000), Str("Apple"),
                Absent, Absent, Absent),
     RawProduct(2, Str("Lamp"), Absent, Num(500), Absent, Absent, Absent, Absent)}

DocCarts ==
    {RawCart(1, Num(1), Num(2000),
             List(<<RawItem(Num(1), Num(2), Num(1000), Absent),
                    RawItem(Num(2), Num(1), Num(500), Num(1000))>>)),
     RawCart(2, Absent, Absent, Absent)}

NextUsers ==
    \/ NormalizeAllBegin
    \/ UsersPhase(DocUsers)
    \/ ProductsPhase(DocProducts)
    \/ CartsPhase(DocCarts, {<<2026, 11, 4>>}, {0}, {9}, {0}, {0}, {"completed"})
    \/ DenormalizeAndLoad
SpecUsers == Init /\ [][NextUsers]_vars

\* ---- records with and without defects, validated
CheckedUsers ==
    {RawUser(1, GoodEmail, Num(30), Absent, AddrAlbany, Absent, Absent),
     RawUser(0, BadEmail, Num(150), Absent, Absent, Absent, Absent),
     RawUser(2, Absent, Absent, Absent, EmptyAddress, Absent, Absent)}

CheckedProducts ==
    {RawProduct(1, Str("Phone"), Chars(Smartphones), Num(1000), Absent,
                Absent, Absent, Absent),
     RawProduct(0, Absent, Absent, Num(-500), Absent, Absent, Absent, Absent)}

CheckedCarts ==
    {RawCart(1, Num(1), Num(2000), List(<<RawItem(Num(1), Num(2), Num(1000), Absent)>>)),
     RawCart(0, Num(0), Absent, List(<<RawItem(Num(0), Num(1), Num(500), Absent)>>)),
     RawCart(2, Num(7), Num(-100), List(<<RawItem(Num(9), Num(0), Num(500), Absent)>>)),
     RawCart(3, Absent, Num(100), List(<<RawItem(Absent, Num(1), Num(500), Absent)>>))}

NextValid ==
    \/ NormalizeAllBegin
    \/ UsersPhase(CheckedUsers)
    \/ ProductsPhase(CheckedProducts)
    \/ CartsPhase(CheckedCarts, {<<2026, 11, 4>>}, {0}, {9}, {0}, {0}, {"completed"})
    \/ ValidateAllFiles
SpecValid == Init /\ [][NextValid]_vars

\* ---- a pipeline run: normalize, then load the star or the snowflake schema
RunUsers ==
    {RawUser(1, GoodEmail, Num(30), Str("admin"), AddrAlbany, Absent, Absent),
     RawUser(2, GoodEmail, Num(30), Absent, Absent, Absent, Absent)}

RunProducts ==
    {RawProduct(1, Str("Phone"), Chars(Smartphones), Num(1000), Str("Apple"),
                Absent, Absent, Absent),
     RawProduct(2, Str("Lamp"), Chars(HomeDecor), Num(500), Absent,
                Absent, Absent, Absent)}

RunCarts ==
    {RawCart(1, Num(1), Num(2000),
             List(<<RawItem(Num(1), Num(2), Num(1000), Num(1000)),
                    RawItem(Num(2), Num(1), Num(1099), Num(5000))>>)),
     RawCart(2, Num(9), Num(500), List(<<RawItem(Num(7), Num(1), Num(500), Absent)>>))}

\* the clock at the turn of a year outside the default calendar
RunNows == {<<2027, 1, 1>>}
RunDaysAgo == {0, 1}

Next ==
    \/ NormalizeAllBegin
    \/ UsersPhase(RunUsers)
    \/ ProductsPhase(RunProducts)
    \/ CartsPhase(RunCarts, RunNows, RunDaysAgo, {9}, {0}, {0}, {"completed"})
    \/ StarBegin \/ StarLoadDimDate \/ StarLoadDimUsers \/ StarLoadDimProducts
    \/ StarLoadDimLocation \/ StarLoadFactOrders
    \/ SnowBegin \/ SnowLoadDimUserRoles \/ SnowLoadDimStates \/ SnowLoadDimCities
    \/ SnowLoadDimCategories \/ SnowLoadDimBrands \/ SnowLoadDimDate
    \/ SnowLoadDimUsers \/ SnowLoadDimProducts \/ SnowLoadFactOrders
Spec == Init /\ [][Next]_vars

\* ---- normalize, then load the snowflake schema
NextSnow ==
    \/ NormalizeAllBegin
    \/ UsersPhase(RunUsers)
    \/ ProductsPhase(RunProducts)
    \/ CartsPhase(RunCarts, {<<2026, 11, 4>>}, {0}, {9}, {0}, {0}, {"completed"})
    \/ SnowBegin \/ SnowLoadDimUserRoles \/ SnowLoadDimStates \/ SnowLoadDimCities
    \/ SnowLoadDimCategories \/ SnowLoadDimBrands \/ SnowLoadDimDate
    \/ SnowLoadDimUsers \/ SnowLoadDimProducts \/ SnowLoadFactOrders
SpecSnow == Init /\ [][NextSnow]_vars

\* ---- the end-to-end scenario: three users, two products of one category, two
\* ---- carts, normalized and validated
E2EUsers ==
    {RawUser(1, GoodEmail, Num(30), Str("admin"), AddrAlbany, Bank1, Company(Absent)),
     RawUser(1, GoodEmail, Num(30), Str("admin"), AddrAlbany, Bank1, Company(AddrAustin)),
     RawUser(2, GoodEmail, Num(30), Absent, Absent, Absent, Absent),
     RawUser(3, GoodEmail, Absent, Absent, Absent, Absent, Absent)}

E2EProducts ==
    {RawProduct(1, Str("Phone"), Chars(Smartphones), Num(1000), Str("Apple"),
                List(<<Str("new"), Str("5g")>>), Absent, List(<<>>)),
     RawProduct(2, Str("Tablet"), Chars(Smartphones), Num(500), Absent, Absent,
                List(<<Str("a.png")>>),
                List(<<[rating |-> Num(5), comment |-> Str("ok")]>>))}

E2ECarts ==
    {RawCart(1, Num(1), Num(2500),
             List(<<RawItem(Num(1), Num(2), Num(1000), Absent),
                    RawItem(Num(2), Num(1), Num(500), Num(1000))>>)),
     RawCart(2, Num(3), Num(500), List(<<RawItem(Num(2), Num(1), Num(500), Absent)>>))}

\* no record read so far has this record's id
Fresh(read, rec) == \A i \in DOMAIN read : read[i].id # rec.id

NextE2E ==
    \/ NormalizeAllBegin
    \/ \E u \in E2EUsers : Fresh(users_raw, u) /\ NormalizeUserStep(u)
    \/ UsersDone
    \/ \E p \in E2EProducts : Fresh(products_raw, p) /\ NormalizeProductStep(p)
    \/ ProductsDone
    \/ \E c \in E2ECarts :
          Fresh(carts_raw, c)
          /\ NormalizeCartStep(c, <<2026, 11, 4>>, 0, 9, 0, 0, "completed")
    \/ NormalizeAllReturn
    \/ ValidateAllFiles
SpecE2E == Init /\ [][NextE2E]_vars

\* ---- each raw record once, around the end of the default calendar, then the
\* ---- star or the snowflake load
NextFacts ==
    \/ NormalizeAllBegin
    \/ \E u \in RunUsers : Fresh(users_raw, u) /\ NormalizeUserStep(u)
    \/ UsersDone
    \/ \E p \in RunProducts : Fresh(products_raw, p) /\ NormalizeProductStep(p)
    \/ ProductsDone
    \/ \E c \in RunCarts, now \in RunNows, days_ago \in RunDaysAgo :
          Fresh(carts_raw, c)
          /\ NormalizeCartStep(c, now, days_ago, 9, 0, 0, "completed")
    \/ NormalizeAllReturn
    \/ StarBegin \/ StarLoadDimDate \/ StarLoadDimUsers \/ StarLoadDimProducts
    \/ StarLoadDimLocation \/ StarLoadFactOrders
    \/ SnowBegin \/ SnowLoadDimUserRoles \/ SnowLoadDimStates \/ SnowLoadDimCities
    \/ SnowLoadDimCategories \/ SnowLoadDimBrands \/ SnowLoadDimDate
    \/ SnowLoadDimUsers \/ SnowLoadDimProducts \/ SnowLoadFactOrders
SpecFacts == Init /\ [][NextFacts]_vars

\* ---- addresses of every region, alike and unlike, then the star load
LocUsers ==
    {RawUser(1, GoodEmail, Num(30), Absent, AddrAlbany, Absent, Company(AddrAlbany)),
     RawUser(2, GoodEmail, Num(30), Absent, AddrAustin, Absent, Absent),
     RawUser(3, GoodEmail, Num(30), Absent, AddrNoState, Absent, Absent),
     RawUser(4, GoodEmail, Num(30), Absent, AddrCapital, Absent, Company(AddrCityOnly)),
     RawUser(5, GoodEmail, Num(30), Absent, Absent, Absent, Absent),
     RawUser(6, GoodEmail, Num(30), Absent, AddrNullPostal, Absent, Absent),
     RawUser(7, GoodEmail, Num(30), Absent, AddrBuffalo, Absent, Absent)}

LocProducts ==
    {RawProduct(1, Str("Phone"), Chars(Smartphones), Num(1000), Str("Apple"),
                Absent, Absent, Absent),
     RawProduct(2, Str("Case"), Chars(smartphones), Num(100), Absent,
                Absent, Absent, Absent)}

\* one cart per user, one of an unknown user and one of no user
LocCarts ==
    {RawCart(u, Num(u), Num(1000), List(<<RawItem(Num(1), Num(1), Num(1000), Absent)>>)) :
        u \in {1, 3, 5, 6, 9}}
    \cup {RawCart(8, Absent, Num(1000),
                  List(<<RawItem(Num(1), Num(1), Num(1000), Absent)>>))}

NextLoc ==
    \/ NormalizeAllBegin
    \/ \E u \in LocUsers :
          Len(users_raw) < MaxUsers /\ Fresh(users_raw, u) /\ NormalizeUserStep(u)
    \/ UsersDone
    \/ ProductsDone
    \/ NormalizeAllReturn
    \/ StarBegin \/ StarLoadDimDate \/ StarLoadDimUsers \/ StarLoadDimProducts
    \/ StarLoadDimLocation \/ StarLoadFactOrders
SpecLoc == Init /\ [][NextLoc]_vars

\* ---- the same with a product and orders of those users
NextLocFacts ==
    \/ NextLoc
    \/ \E p \in LocProducts : Fresh(products_raw, p) /\ NormalizeProductStep(p)
    \/ \E c \in LocCarts :
          /\ Len(carts_raw) < MaxCarts /\ Fresh(carts_raw, c)
          /\ NormalizeCartStep(c, <<2026, 11, 4>>, 0, 9, 0, 0, "completed")
SpecLocFacts == Init /\ [][NextLocFacts]_vars

\* ---- the same addresses, then the snowflake load
NextSnowLoc ==
    \/ NormalizeAllBegin
    \/ \E u \in LocUsers :
          Len(users_raw) < MaxUsers /\ Fresh(users_raw, u) /\ NormalizeUserStep(u)
    \/ UsersDone
    \/ \E p \in LocProducts : Fresh(products_raw, p) /\ NormalizeProductStep(p)
    \/ ProductsDone
    \/ NormalizeAllReturn
    \/ SnowBegin \/ SnowLoadDimUserRoles \/ SnowLoadDimStates \/ SnowLoadDimCities
    \/ SnowLoadDimCategories \/ SnowLoadDimBrands \/ SnowLoadDimDate
    \/ SnowLoadDimUsers \/ SnowLoadDimProducts \/ SnowLoadFactOrders
SpecSnowLoc == Init /\ [][NextSnowLoc]_vars

\* ---- products with tags, images and reviews, orders of known and unknown users
\* ---- and products, read back as documents
Review(rating, comment) == [rating |-> rating, comment |-> comment]

ImgProducts ==
    {RawProduct(1, Str("Phone"), Chars(Smartphones), Num(1000), Str("Apple"),
                List(<<Str("new"), Str("5g")>>),
                List(<<Str("c.png"), Str("a.png"), Str("b.png")>>),
                List(<<Review(Num(5), Str("good")), Review(Num(1), Absent)>>)),
     RawProduct(2, Str("Lamp"), Chars(HomeDecor), Num(500), Absent,
                Absent, List(<<Str("a.png")>>), Absent),
     RawProduct(3, Str("Case"), Chars(smartphones), Num(100), Absent,
                List(<<Str("x")>>), Absent, List(<<Review(Num(3), Str("fine"))>>)),
     RawProduct(4, Absent, Absent, Num(100), Absent,
                List(<<Str("b"), Str("a")>>), List(<<>>), List(<<>>))}

ImgUsers ==
    {RawUser(1, GoodEmail, Num(30), Str("admin"), AddrAlbany, Absent, Absent),
     RawUser(2, GoodEmail, Num(30), Absent, Absent, Absent, Absent)}

ImgCarts ==
    {RawCart(1, Num(1), Num(2500),
             List(<<RawItem(Num(1), Num(2), Num(1000), Absent),
                    RawItem(Num(2), Num(1), Num(500), Num(1000)),
                    RawItem(Num(1), Num(1), Num(900), Absent)>>)),
     RawCart(2, Num(7), Num(1100),
             List(<<RawItem(Num(9), Num(1), Num(100), Absent),
                    RawItem(Num(1), Num(1), Num(1000), Absent)>>)),
     RawCart(3, Absent, Absent, Absent)}

NextDocs ==
    \/ NormalizeAllBegin
    \/ \E u \in ImgUsers :
          Len(users_raw) < MaxUsers /\ Fresh(users_raw, u) /\ NormalizeUserStep(u)
    \/ UsersDone
    \/ \E p \in ImgProducts :
          /\ Len(products_raw) < MaxProducts /\ Fresh(products_raw, p)
          /\ NormalizeProductStep(p)
    \/ ProductsDone
    \/ \E c \in ImgCarts :
          /\ Len(carts_raw) < MaxCarts /\ Fresh(carts_raw, c)
          /\ NormalizeCartStep(c, <<2026, 11, 4>>, 0, 9, 0, 0, "completed")
    \/ NormalizeAllReturn
    \/ DenormalizeAndLoad
SpecDocs == Init /\ [][NextDocs]_vars

\* ---- orders of every status, and a processed directory that is already there
\* ---- when the run starts, whose order has no status key
PreparedTables(status) ==
    LET u == NormalizeUser(RawUser(1, GoodEmail, Num(30), Absent, AddrAlbany, Absent, Absent),
                           1, 1, 1)
        p == NormalizeProduct(RawProduct(1, Str("Phone"), Chars(Smartphones), Num(1000),
                                         Str("Apple"), Absent, Absent, Absent),
                              1, <<>>, 1, 1, 1)
        c == NormalizeCart(RawCart(1, Num(1), Num(2000),
                                   List(<<RawItem(Num(1), Num(2), Num(1000), Num(1000)),
                                          RawItem(Num(1), Num(1), Num(1099), Absent)>>)),
                           1, GenerateOrderDate(<<2026, 11, 4>>, 0, 9, 0, 0), "shipped")
    IN [t \in TableNames |->
           List(CASE t = "users" -> <<u.user>>
                  [] t = "addresses" -> <<u.address>>
                  [] t = "products" -> <<p.product>>
                  [] t = "categories" -> p.category_cache
                  [] t = "orders" -> <<[c.order EXCEPT !.status = status]>>
                  [] t = "order_items" -> c.items
                  [] OTHER -> <<>>)]

NoItemsCart == RawCart(3, Num(2), Num(0), Absent)

InitFactRows ==
    /\ CalIdle /\ FactIdle /\ ConsIdle /\ OthersIdle
    /\ raw_files \in SUBSET RawFileNames
    /\ users_raw = <<>> /\ products_raw = <<>> /\ carts_raw = <<>>
    /\ pc = "idle"
    /\ address_id = 1 /\ bank_id = 1 /\ company_id = 1 /\ category_id = 1
    /\ review_id = 1 /\ product_tag_id = 1 /\ product_image_id = 1
    /\ order_item_id = 1
    /\ category_cache = <<>>
    /\ tables = EmptyTables
    /\ processed \in {[t \in TableNames |-> Absent],
                      PreparedTables(Absent), PreparedTables(Str("pending"))}

NextFactRows ==
    \/ NormalizeAllBegin
    \/ \E u \in RunUsers : Fresh(users_raw, u) /\ NormalizeUserStep(u)
    \/ UsersDone
    \/ \E p \in RunProducts : Fresh(products_raw, p) /\ NormalizeProductStep(p)
    \/ ProductsDone
    \/ \E c \in RunCarts \cup {NoItemsCart}, status \in {"shipped", "delivered"} :
          /\ Len(carts_raw) < MaxCarts /\ Fresh(carts_raw, c)
          /\ NormalizeCartStep(c, <<2026, 11, 4>>, 0, 9, 0, 0, status)
    \/ NormalizeAllReturn
    \/ StarBegin \/ StarLoadDimDate \/ StarLoadDimUsers \/ StarLoadDimProducts
    \/ StarLoadDimLocation \/ StarLoadFactOrders
    \/ SnowBegin \/ SnowLoadDimUserRoles \/ SnowLoadDimStates \/ SnowLoadDimCities
    \/ SnowLoadDimCategories \/ SnowLoadDimBrands \/ SnowLoadDimDate
    \/ SnowLoadDimUsers \/ SnowLoadDimProducts \/ SnowLoadFactOrders
SpecFactRows == InitFactRows /\ [][NextFactRows]_vars

\* ---- the PostgreSQL load over processed directories: every table filled, one
\* ---- file empty or missing, and one table large enough for batch inserts
MaxRows == 2

PgRows(n) == [i \in 1 .. n |-> [id |-> i]]

PgDirs ==
    {[t \in Range(pg_load_order) |-> List(PgRows(n))] : n \in 1 .. MaxRows}
    \cup {[t \in Range(pg_load_order) |-> IF t = e THEN gone ELSE List(PgRows(MaxRows))] :
            e \in Range(pg_load_order), gone \in {Absent, List(<<>>)}}
    \cup {[t \in Range(pg_load_order) |->
              IF t = "product_tags" THEN List(PgRows(n)) ELSE List(PgRows(1))] :
            n \in {one_by_one_limit, one_by_one_limit + 1, batch_size + 1}}

InitPg ==
    /\ CalIdle /\ FactIdle /\ NormIdle /\ ConsIdle /\ raw_files = {}
    /\ OdIdle /\ RerunIdle /\ PipeIdle /\ GenIdle /\ SnowCalIdle
    /\ pg_pc = "idle" /\ pg_pos = 0 /\ pg_pending = <<>>
    /\ pg_dir \in PgDirs
    /\ pg_db = PgEmptyDb /\ pg_timing = <<>>

NextPg ==
    \/ PgLoadAllData \/ PgNoData \/ PgExecute \/ PgExecuteFails
    \/ PgCommit \/ PgCommitFails \/ PgReturn
SpecPg == InitPg /\ [][NextPg]_vars

\* ---- order dates drawn at several clock readings, a leap day behind one of them
OdNows ==
    {[date |-> d, hour |-> t[1], minute |-> t[2], second |-> t[3]] :
        d \in {<<2025, 2, 28>>, <<2024, 12, 31>>},
        t \in {<<0, 0, 0>>, <<15, 0, 0>>, <<22, 0, 0>>}}

\* random.randint(0, 365), random.randint(9, 21), random.randint(0, 59)
OdDaysAgo == 0 .. 365
OdHours == 9 .. 21
OdMinutes == {0, 59}

InitOd ==
    /\ CalIdle /\ FactIdle /\ NormIdle /\ ConsIdle /\ raw_files = {}
    /\ PgIdle /\ RerunIdle /\ PipeIdle /\ GenIdle /\ SnowCalIdle
    /\ od_now \in OdNows /\ od_out = None

\* (a call that has returned is not called again)
NextOd ==
    /\ od_out = None
    /\ \E days_ago \in OdDaysAgo, hour \in OdHours, minute \in OdMinutes,
          second \in OdMinutes :
          GenerateOrderDateCall(days_ago, hour, minute, second)
SpecOd == InitOd /\ [][NextOd]_vars

\* ---- normalize_all twice over the same raw files, on one DataNormalizer or two
NextRerun ==
    \/ NormalizeAllBegin
    \/ \E u \in E2EUsers :
          /\ pc = "users" /\ NextRecord(users_raw, "users", u)
          /\ NormalizeUserStep(u)
    \/ pc = "users" /\ EndOfFile(users_raw, "users") /\ UsersDone
    \/ \E p \in E2EProducts :
          /\ pc = "products" /\ NextRecord(products_raw, "products", p)
          /\ NormalizeProductStep(p)
    \/ pc = "products" /\ EndOfFile(products_raw, "products") /\ ProductsDone
    \/ \E c \in E2ECarts, status \in {"pending", "shipped"} :
          /\ pc = "carts" /\ NextRecord(carts_raw, "carts", c)
          /\ NormalizeCartStep(c, <<2026, 11, 4>>, 0, 9, 0, 0, status)
    \/ pc = "carts" /\ EndOfFile(carts_raw, "carts") /\ NormalizeAllReturn
    \/ NormalizeAllAgain
    \/ NewNormalizerNormalizeAll
SpecRerun == Init /\ [][NextRerun]_vars

\* ---- products of shared and of different categories and brands, loaded into the
\* ---- snowflake schema
SnowCatProducts ==
    {RawProduct(1, Str("Phone"), Chars(Smartphones), Num(1000), Str("Apple"),
                Absent, Absent, Absent),
     RawProduct(2, Str("Case"), Chars(smartphones), Num(100), Absent,
                Absent, Absent, Absent),
     RawProduct(3, Str("Lamp"), Chars(HomeDecor), Num(500), Str("Apple"),
                Absent, Absent, Absent),
     RawProduct(4, Str("Box"), Absent, Num(100), Str("Acme"), Absent, Absent, Absent)}

NextSnowCat ==
    \/ NormalizeAllBegin
    \/ \E u \in ImgUsers : Fresh(users_raw, u) /\ NormalizeUserStep(u)
    \/ UsersDone
    \/ \E p \in SnowCatProducts :
          /\ Len(products_raw) < MaxProducts /\ Fresh(products_raw, p)
          /\ NormalizeProductStep(p)
    \/ ProductsDone
    \/ NormalizeAllReturn
    \/ SnowBegin \/ SnowLoadDimUserRoles \/ SnowLoadDimStates \/ SnowLoadDimCities
    \/ SnowLoadDimCategories \/ SnowLoadDimBrands \/ SnowLoadDimDate
    \/ SnowLoadDimUsers \/ SnowLoadDimProducts \/ SnowLoadFactOrders
SpecSnowCat == Init /\ [][NextSnowCat]_vars

\* ---- the pipeline: the normalizer and the loaders run inside their steps
PipeProducts ==
    {RawProduct(1, Str("Phone"), Chars(Smartphones), Num(1000), Str("Apple"),
                List(<<Str("new")>>), Absent, Absent),
     RawProduct(2, Str("Lamp"), None, Num(500), Absent, Absent, Absent, Absent)}

PipeCarts ==
    {RawCart(1, Num(1), Num(1000), List(<<RawItem(Num(1), Num(1), Num(1000), Absent)>>))}

InitPipe ==
    /\ CalIdle /\ FactIdle /\ NormIdle /\ ConsIdle /\ OthersIdle
    /\ raw_files \in {{}, RawFileNames}

NextPipe ==
    \/ PipelineMain \/ PipelineCallStep \/ PipelineStepSucceeds \/ PipelineStepFails
    \/ PipelineComplete
    \/ InStep("Transform") /\ NormalizeAllBegin
    \/ InStep("Transform") /\ \E u \in ImgUsers : Fresh(users_raw, u) /\ NormalizeUserStep(u)
    \/ InStep("Transform") /\ UsersDone
    \/ InStep("Transform") /\ \E p \in PipeProducts :
          /\ Len(products_raw) < MaxProducts /\ Fresh(products_raw, p)
          /\ NormalizeProductStep(p)
    \/ InStep("Transform") /\ ProductsDone
    \/ InStep("Transform") /\ \E c \in PipeCarts :
          /\ Fresh(carts_raw, c)
          /\ NormalizeCartStep(c, <<2026, 11, 4>>, 0, 9, 0, 0, "pending")
    \/ InStep("Transform") /\ NormalizeAllReturn
    \/ InStep("Load PostgreSQL")
          /\ (PgLoadAllData \/ PgNoData \/ PgExecute \/ PgExecuteFails
              \/ PgCommit \/ PgCommitFails \/ PgReturn)
    \/ InStep("Load MongoDB") /\ DenormalizeAndLoad
SpecPipe == InitPipe /\ [][NextPipe]_vars

\* the star builder, then the snowflake builder over the same years, then both
\* once more
NextCalPair ==
    \/ GenerateBegin \/ GenerateStep \/ GenerateReturn
    \/ SnowGenerateBegin \/ SnowGenerateStep \/ SnowGenerateReturn
    \/ GenerateAgain
SpecCalPair == InitDate /\ [][NextCalPair]_vars

\* the generator over processed directories of up to MaxSource users, products
\* and orders, asked for 1 .. MaxTarget records
MaxTarget == 3
MaxSource == 2

GenUsers(n) == [k \in 1 .. n |-> [id |-> k, username |-> <<"user", k>>, email |-> <<"mail", k>>]]
GenProducts(n) == [k \in 1 .. n |-> [id |-> k, title |-> <<"title", k>>, sku |-> k]]
GenOrders(n) == [k \in 1 .. n |-> [id |-> k, user_id |-> 1]]

GenSources ==
    { ("users.json" :> GenUsers(u)) @@ ("products.json" :> GenProducts(p))
        @@ ("orders.json" :> GenOrders(o)) :
        u \in 0 .. MaxSource, p \in 0 .. MaxSource, o \in 0 .. MaxSource }

NextGen ==
    \/ \E target_count \in 1 .. MaxTarget, source \in GenSources :
          GenerateAllTestData(target_count, source)
    \/ GenerateTestUsersStep \/ GenerateTestUsersReturn
    \/ GenerateTestProductsStep \/ GenerateTestProductsReturn
    \/ GenerateTestOrdersStep \/ GenerateTestOrdersReturn
    \/ GenerateRaises
SpecGen == InitDate /\ [][NextGen]_vars

-----------------------------------------------------------------------------
(* Properties                                                               *)

\* the slug of a raw product's category name
RawSlug(product) == Slug(GetD(product.category, Chars(uncategorized)).v)

\* C1: after normalize_all, two products have the same category_id exactly when
\* their category names give the same slug, the categories table has exactly one
\* row per distinct slug, and "Smartphones" and "smartphones" share the slug
\* "smartphones", one key and one row.
C1_CategoryDedup ==
    pc = "done" =>
        LET P == tables.products
            C == tables.categories
        IN /\ Len(P) = Len(products_raw)
           /\ \A i, j \in DOMAIN P :
                 (P[i].category_id = P[j].category_id)
                     <=> (RawSlug(products_raw[i]) = RawSlug(products_raw[j]))
           /\ \A i, j \in DOMAIN C : C[i].slug = C[j].slug => i = j
           /\ {C[i].slug.v : i \in DOMAIN C}
                = {RawSlug(products_raw[i]) : i \in DOMAIN products_raw}
           /\ \A i \in DOMAIN P :
                 \E c \in DOMAIN C : /\ C[c].id = P[i].category_id
                                     /\ C[c].slug.v = RawSlug(products_raw[i])
           /\ \A i, j \in DOMAIN P :
                 /\ products_raw[i].category = Chars(Smartphones)
                 /\ products_raw[j].category = Chars(smartphones)
                 => /\ P[i].category_id = P[j].category_id
                    /\ Cardinality({c \in DOMAIN C : C[c].slug = Chars(smartphones)}) = 1
                    /\ \A c \in DOMAIN C :
                          C[c].id = P[i].category_id => C[c].slug = Chars(smartphones)

\* a run that normalized "Smartphones" and then "smartphones" and nothing else
C1_Witness ==
    /\ pc = "done"
    /\ Len(products_raw) = 2
    /\ products_raw[1].category = Chars(Smartphones)
    /\ products_raw[2].category = Chars(smartphones)
    /\ Len(tables.categories) = 1

\* C2: the date dimension has one row per calendar day from start_year-01-01 to
\* end_year-12-31, in ascending order without gap or duplicate, the k-th row has
\* date_id k, and 2020..2021 gives 731 rows.
C2_CalendarComplete ==
    /\ \A k \in DOMAIN dates :
          /\ dates[k].date_id = k
          /\ dates[k].full_date[2] \in 1 .. 12
          /\ dates[k].full_date[3] \in
                1 .. DaysInMonth(dates[k].full_date[1], dates[k].full_date[2])
          /\ ToOrdinal(dates[k].full_date) = ToOrdinal(<<start_year, 1, 1>>) + k - 1
    /\ cal_pc = "done" =>
          /\ Len(dates) = ToOrdinal(<<end_year, 12, 31>>)
                            - ToOrdinal(<<start_year, 1, 1>>) + 1
          /\ dates[Len(dates)].full_date = <<end_year, 12, 31>>
          /\ (start_year = 2020 /\ end_year = 2021) => Len(dates) = 731

\* the calendar of 2020..2021 has been returned
C2_Witness ==
    /\ cal_pc = "done" /\ start_year = 2020 /\ end_year = 2021
    /\ Len(dates) = 731 /\ dates[60].full_date = <<2020, 2, 29>>

\* C3: every fact row has subtotal = unit_price * quantity, discount_amount =
\* round(subtotal * discount_percentage / 100, 2) and total_amount =
\* round(subtotal - discount_amount, 2) with the stored, rounded discount_amount
\* (amounts in hundredths, so the last rounding is exact).
C3_FactArithmetic ==
    fact_out # <<>> =>
        LET row == fact_out[1]
            subtotal == fact_in[1] * fact_in[2]
        IN /\ row.subtotal = subtotal
           /\ \E up \in BOOLEAN :
                 row.discount_amount = Round2(subtotal * fact_in[3], 10000, up)
           /\ row.total_amount = row.subtotal - row.discount_amount

\* some row of `rows` has `key` in column `col`
HasRow(rows, col, key) == \E i \in DOMAIN rows : rows[i][col] = key

\* every non-null foreign key of the fact rows resolves in the dimension tables
FactKeysResolve(facts, dim_users, dim_products, dim_date, dim_location) ==
    \A i \in DOMAIN facts :
        /\ facts[i].user_id # None => HasRow(dim_users, "user_id", facts[i].user_id)
        /\ facts[i].product_id # None
              => HasRow(dim_products, "product_id", facts[i].product_id)
        /\ HasRow(dim_date, "date_id", facts[i].date_id)
        /\ facts[i].location_id # None
              => HasRow(dim_location, "location_id", facts[i].location_id.v)

\* C4: every non-null user_id, product_id, date_id and (star) location_id of a
\* fact row is the key of a row of the dimension table loaded in the same run.
C4_FactKeysResolve ==
    /\ (consumer = "star" /\ star_pc = "done")
          => FactKeysResolve(star_db.fact_orders, star_db.dim_users,
                             star_db.dim_products, DimDateRows(star_db.dim_date),
                             star_db.dim_location)
    /\ (consumer = "snow" /\ snow_pc = "done")
          => FactKeysResolve(snow_db.fact_orders, snow_db.dim_users,
                             snow_db.dim_products, DimDateRows(snow_db.dim_date), <<>>)

\* the raw value of a nested object is missing or empty
NestedMissing(x) ==
    \/ x = Absent
    \/ x = None
    \/ (x.k = "obj" /\ \A f \in DOMAIN x.v : x.v[f] = Absent)

\* exactly one row of `rows` has this id
OneRow(rows, id) == Cardinality({i \in DOMAIN rows : rows[i].id = id}) = 1

\* C5: after normalize_all every non-null User.address_id, User.bank_id,
\* User.company_id, Company.address_id, Product.category_id and
\* OrderItem.order_id is the id of a row of the table it points to, and a user's
\* foreign key is None exactly when the nested object is absent or empty.
C5_NormalizedKeysResolve ==
    pc = "done" =>
        /\ Len(tables.users) = Len(users_raw)
        /\ \A i \in DOMAIN tables.users :
              LET u == tables.users[i]
                  raw == users_raw[i]
              IN /\ (u.address_id = None) <=> NestedMissing(raw.address)
                 /\ (u.bank_id = None) <=> NestedMissing(raw.bank)
                 /\ (u.company_id = None) <=> NestedMissing(raw.company)
                 /\ u.address_id # None => OneRow(tables.addresses, u.address_id)
                 /\ u.bank_id # None => OneRow(tables.banks, u.bank_id)
                 /\ u.company_id # None => OneRow(tables.companies, u.company_id)
        /\ \A i \in DOMAIN tables.companies :
              tables.companies[i].address_id # None
                  => OneRow(tables.addresses, tables.companies[i].address_id)
        /\ \A i \in DOMAIN tables.products :
              /\ tables.products[i].category_id # None
              /\ OneRow(tables.categories, tables.products[i].category_id)
        /\ \A i \in DOMAIN tables.order_items :
              HasRow(tables.orders, "id", tables.order_items[i].order_id)

\* a run that normalized a user with all three nested objects and one with none,
\* a product and a cart with items
C5_Witness ==
    /\ pc = "done"
    /\ \E i, j \in DOMAIN tables.users :
          /\ tables.users[i].address_id # None /\ tables.users[i].bank_id # None
          /\ tables.users[i].company_id # None
          /\ \E c \in DOMAIN tables.companies :
                /\ tables.companies[c].id = tables.users[i].company_id
                /\ tables.companies[c].address_id # None
          /\ tables.users[j].address_id = None /\ tables.users[j].bank_id = None
          /\ tables.users[j].company_id = None
    /\ tables.products # <<>> /\ tables.order_items # <<>>

\* the row of `rows` with this id
RowWithId(rows, id) == rows[CHOOSE i \in DOMAIN rows : rows[i].id = id]

\* an address sub-document carries the fields of an address row, which carry the
\* raw address with its defaults
SameAddress(doc, row, raw) ==
    /\ doc # Absent
    /\ doc.address_line = row.address_line /\ doc.city = row.city
    /\ doc.state = row.state /\ doc.state_code = row.state_code
    /\ doc.postal_code = row.postal_code /\ doc.country = row.country
    /\ doc.address_line = GetD(raw.address, Str(""))
    /\ doc.city = GetD(raw.city, Str(""))
    /\ doc.state = GetD(raw.state, Str(""))
    /\ doc.state_code = GetD(raw.stateCode, Str(""))
    /\ doc.postal_code = GetD(raw.postalCode, Str(""))
    /\ doc.country = GetD(raw.country, Str("United States"))
    /\ doc.coordinates.lat = row.latitude /\ doc.coordinates.lng = row.longitude
    /\ doc.coordinates.lat = (IF raw.coordinates = Absent THEN None
                              ELSE Get(raw.coordinates.v.lat))
    /\ doc.coordinates.lng = (IF raw.coordinates = Absent THEN None
                              ELSE Get(raw.coordinates.v.lng))

\* C6: the document built from a normalized user has address, bank and
\* company.address sub-objects with the field values of the rows the user's
\* address_id, bank_id and the company's address_id refer to (the raw values),
\* and has no address, bank or company key when the raw user has none.
C6_UserDocumentRoundTrip ==
    (consumer = "mongo" /\ pc = "done") =>
        /\ Len(users_docs) = Len(users_raw)
        /\ \A i \in DOMAIN users_docs :
              LET doc == users_docs[i]
                  raw == users_raw[i]
                  u == tables.users[i]
              IN /\ doc._id = raw.id
                 /\ IF NestedMissing(raw.address) THEN doc.address = Absent
                    ELSE SameAddress(doc.address,
                                     RowWithId(tables.addresses, u.address_id),
                                     raw.address.v)
                 /\ IF NestedMissing(raw.bank) THEN doc.bank = Absent
                    ELSE LET b == RowWithId(tables.banks, u.bank_id)
                         IN /\ doc.bank # Absent
                            /\ doc.bank.card_number = b.card_number
                            /\ doc.bank.iban = b.iban
                            /\ doc.bank.card_number = Get(raw.bank.v.cardNumber)
                            /\ doc.bank.iban = Get(raw.bank.v.iban)
                 /\ IF NestedMissing(raw.company) THEN doc.company = Absent
                    ELSE LET c == RowWithId(tables.companies, u.company_id)
                         IN /\ doc.company # Absent
                            /\ doc.company.name = c.name
                            /\ doc.company.title = c.title
                            /\ IF NestedMissing(raw.company.v.address)
                               THEN doc.company.address = Absent
                               ELSE SameAddress(doc.company.address,
                                                RowWithId(tables.addresses, c.address_id),
                                                raw.company.v.address.v)

\* documents were built for a user with an address, a bank and a company with
\* its own address, and for a user with none of them
C6_Witness ==
    /\ consumer = "mongo" /\ pc = "done"
    /\ \E i, j \in DOMAIN users_docs :
          /\ users_docs[i].address # Absent /\ users_docs[i].bank # Absent
          /\ users_docs[i].company # Absent
          /\ users_docs[i].company.address # Absent
          /\ users_docs[i].address # users_docs[i].company.address
          /\ users_docs[j].address = Absent /\ users_docs[j].bank = Absent
          /\ users_docs[j].company = Absent

\* the tables normalize_all fills from each raw file
DependentTables(file) ==
    CASE file = "users.json" -> {"users", "addresses", "banks", "companies"}
      [] file = "products.json" -> {"products", "categories", "product_tags",
                                    "product_images", "reviews"}
      [] file = "carts.json" -> {"orders", "order_items"}

\* C7: when a raw collection is absent normalize_all does not abort: it returns
\* all eleven tables, those that depend on the absent collection with zero rows.
C7_AbsentRawIsEmpty ==
    /\ raw_files # RawFileNames => pc # "raised"
    /\ pc = "done" =>
          /\ \A t \in TableNames : processed[t] # Absent
          /\ \A f \in RawFileNames \ raw_files :
                \A t \in DependentTables(f) : tables[t] = <<>>

\* the foreign keys the referential-integrity check covers
Relationships ==
    {[src |-> "orders", fk |-> "user_id", tgt |-> "users", rel |-> "orders.user_id"],
     [src |-> "order_items", fk |-> "order_id", tgt |-> "orders",
      rel |-> "order_items.order_id"],
     [src |-> "order_items", fk |-> "product_id", tgt |-> "products",
      rel |-> "order_items.product_id"],
     [src |-> "users", fk |-> "address_id", tgt |-> "addresses",
      rel |-> "users.address_id"],
     [src |-> "products", fk |-> "category_id", tgt |-> "categories",
      rel |-> "products.category_id"]}

\* the messages recorded under "referential_integrity"
ReferentialMessages ==
    IF "referential_integrity" \in DOMAIN errors
    THEN errors["referential_integrity"] ELSE <<>>

\* C8: the referential-integrity check records an error for a source row exactly
\* when its foreign key is non-null and absent from the target table's ids, for
\* each of the five relationships and every key value, 0 included.
C8_EveryDanglingKeyReported ==
    (consumer = "validator" /\ pc = "done") =>
        \A r \in Relationships :
            \A i \in DOMAIN processed[r.src].v :
                LET row == processed[r.src].v[i]
                    dangling == /\ row[r.fk] # None
                                /\ ~HasRow(processed[r.tgt].v, "id", row[r.fk])
                IN dangling <=>
                       \E n \in DOMAIN ReferentialMessages :
                           /\ ReferentialMessages[n].kind = r.rel
                           /\ ReferentialMessages[n].idx = row.id
                           /\ ReferentialMessages[n].what = row[r.fk]

\* some message of this kind is recorded in the dict
Recorded(d, kind) ==
    \E k \in DOMAIN d : \E n \in DOMAIN d[k] : d[k][n].kind = kind

\* C9: passed is true exactly when no error is recorded for any file or for
\* referential integrity; warnings leave it alone, and a missing file, a missing
\* required field, a negative price or total and a recorded broken foreign key
\* each make it false.
C9_PassedIffNoError ==
    consumer = "validator" =>
        /\ results.errors = errors /\ results.warnings = warnings
        /\ results.passed <=> (\A k \in DOMAIN errors : errors[k] = <<>>)
        /\ (\E t \in TableNames : processed[t] = Absent) => ~results.passed
        /\ pc = "done" =>
              /\ (\E i \in DOMAIN tables.users : tables.users[i].email = None)
                    => ~results.passed
              /\ (\E i \in DOMAIN tables.products :
                     /\ tables.products[i].price.k = "int"
                     /\ tables.products[i].price.v < 0) => ~results.passed
              /\ (\E i \in DOMAIN tables.orders :
                     /\ tables.orders[i].total.k = "int"
                     /\ tables.orders[i].total.v < 0) => ~results.passed
              /\ ReferentialMessages # <<>> => ~results.passed

\* a validation that passed although warnings were recorded
C9_Witness ==
    /\ consumer = "validator" /\ pc = "done"
    /\ results.passed
    /\ Recorded(warnings, "Invalid email format")
    /\ Recorded(warnings, "File is empty")

\* every call of a load of `later` comes after the return of each load of `earlier`
LoadsBefore(earlier, later) ==
    \A n \in DOMAIN snow_log :
        (snow_log[n][1] = "call" /\ snow_log[n][2] \in later)
            => \A t \in earlier : \E m \in 1 .. (n - 1) : snow_log[m] = <<"return", t>>

\* C10: in the snowflake load_all the five sub-dimension loads return before
\* dim_users and dim_products are called, dim_states returns before dim_cities is
\* called, and dim_users, dim_products and dim_date return before the fact load
\* is called.
C10_SnowflakeLoadOrder ==
    /\ LoadsBefore({"dim_user_roles", "dim_states", "dim_cities", "dim_categories",
                    "dim_brands"}, {"dim_users", "dim_products"})
    /\ LoadsBefore({"dim_states"}, {"dim_cities"})
    /\ LoadsBefore({"dim_users", "dim_products", "dim_date"}, {"fact_orders"})

\* a snowflake load_all that ran to the end and loaded fact rows
C10_Witness ==
    /\ consumer = "snow" /\ snow_pc = "done"
    /\ Len(snow_log) = 2 * Len(snow_load_order)
    /\ snow_db.dim_cities # <<>> /\ snow_db.fact_orders # <<>>


\* a raw user with all three nested objects / with none of them
FullUser(raw) ==
    ~NestedMissing(raw.address) /\ ~NestedMissing(raw.bank) /\ ~NestedMissing(raw.company)
BareUser(raw) ==
    NestedMissing(raw.address) /\ NestedMissing(raw.bank) /\ NestedMissing(raw.company)

\* the ids of the records read
IdsOf(read) == {read[i].id : i \in DOMAIN read}

\* normalize_all returned for three users (one full, two bare), two products of
\* one category and two carts that refer to those users and products
E2EScenario ==
    /\ pc = "done"
    /\ Len(users_raw) = 3
    /\ Cardinality({i \in DOMAIN users_raw : FullUser(users_raw[i])}) = 1
    /\ Cardinality({i \in DOMAIN users_raw : BareUser(users_raw[i])}) = 2
    /\ Len(products_raw) = 2
    /\ RawSlug(products_raw[1]) = RawSlug(products_raw[2])
    /\ Len(carts_raw) = 2
    /\ \A c \in DOMAIN carts_raw :
          /\ carts_raw[c].userId \in IdsOf(users_raw)
          /\ \A i \in DOMAIN ListOf(carts_raw[c].products) :
                ListOf(carts_raw[c].products)[i].id \in IdsOf(products_raw)

\* the row counts of the scenario, with `addresses` address rows
E2ECounts(addresses) ==
    /\ Len(tables.categories) = 1
    /\ Len(tables.products) = 2
    /\ Len(tables.addresses) = addresses
    /\ Len(tables.banks) = 1
    /\ Len(tables.companies) = 1
    /\ Len(tables.orders) = 2
    /\ Len(tables.order_items) = Len(ListOf(carts_raw[1].products))
                                   + Len(ListOf(carts_raw[2].products))
    /\ consumer = "validator" => (DOMAIN errors = {} /\ results.passed)

\* the raw users whose company has an address of its own
OwnCompanyAddress ==
    {i \in DOMAIN users_raw : /\ ~NestedMissing(users_raw[i].company)
                              /\ ~NestedMissing(users_raw[i].company.v.address)}

\* C11 as stated: in the end-to-end scenario normalization yields 1 category, 2
\* products, 1 address, 1 bank, 1 company, 2 orders and one order item per cart
\* line, and the validator reports zero errors.
C11_EndToEndCounts == E2EScenario => E2ECounts(1)

\* C11: in the end-to-end scenario normalization yields 1 category, 2 products,
\* 1 bank, 1 company, 2 orders, one order item per cart line, and 1 address row
\* plus one more when the full user's company has an address of its own; the
\* validator reports zero errors.
C11_EndToEndCountsWithCompanyAddress ==
    E2EScenario => E2ECounts(1 + Cardinality(OwnCompanyAddress))

\* the scenario was normalized and validated with a company that has its own
\* address
C11_Witness ==
    /\ E2EScenario /\ consumer = "validator"
    /\ OwnCompanyAddress # {}
    /\ Len(tables.order_items) = 3 /\ Len(tables.product_tags) = 2


\* the date_id the calendar of sy..ey gives a date of that range (rows are
\* numbered from 1 in date order)
CalendarDateId(d, sy) == ToOrdinal(d) - ToOrdinal(<<sy, 1, 1>>) + 1

\* every fact row carries the date_id of its order's date: the calendar row's id
\* for a date of the loaded range, else the integer YYYYMMDD, which no calendar
\* row has; every line of every order got its fact row
DateIdsResolved(facts, orders, order_items, loaded) ==
    LET dim == DimDateRows(loaded)
        InRange(d) == loaded[1] <= d[1] /\ d[1] <= loaded[2]
        Expected(d) == IF InRange(d) THEN CalendarDateId(d, loaded[1])
                       ELSE d[1] * 10000 + d[2] * 100 + d[3]
    IN /\ \A f \in DOMAIN facts :
             \E o \in DOMAIN orders :
                 /\ orders[o].id = facts[f].order_id
                 /\ facts[f].date_id = Expected(OrderDateOf(orders[o]))
       /\ \A o \in DOMAIN orders :
             LET d == OrderDateOf(orders[o])
             IN /\ InRange(d) => /\ Expected(d) \in DOMAIN dim
                                 /\ dim[Expected(d)].date_id = Expected(d)
                                 /\ dim[Expected(d)].full_date = d
                /\ ~InRange(d) => /\ Expected(d) > Len(dim)
                                  /\ \A k \in DOMAIN dim : dim[k].date_id # Expected(d)
                /\ \A i \in DOMAIN order_items :
                      order_items[i].order_id = orders[o].id
                          => \E f \in DOMAIN facts :
                                 /\ facts[f].order_id = orders[o].id
                                 /\ facts[f].product_id = order_items[i].product_id
                                 /\ facts[f].date_id = Expected(d)
       /\ \A k \in DOMAIN dim : dim[k].date_id = k
       \* the smallest fallback there is, 0001-01-01, is above every date_id
       /\ YYYYMMDD(<<1, 1, 1>>) > Len(dim)

\* C12: a completed fact load (star or snowflake) gave every fact row the
\* date_id of the dim_date row of its order's date when the date is in the
\* generated range, and the integer YYYYMMDD of the date otherwise; that
\* fallback is never the date_id of a generated row (those are 1..N).
C12_DateIdResolution ==
    /\ (consumer = "star" /\ star_pc = "done" /\ star_db.fact_orders # <<>>)
          => DateIdsResolved(star_db.fact_orders, processed.orders.v,
                             processed.order_items.v, star_db.dim_date)
    /\ (consumer = "snow" /\ snow_pc = "done" /\ snow_db.fact_orders # <<>>)
          => DateIdsResolved(snow_db.fact_orders, processed.orders.v,
                             processed.order_items.v, snow_db.dim_date)

\* a star load whose fact rows carry the last date_id of the calendar for one
\* order and the fallback of the next day for another
C12_Witness ==
    /\ consumer = "star" /\ star_pc = "done"
    /\ \E f, g \in DOMAIN star_db.fact_orders :
          /\ star_db.fact_orders[f].date_id = 2557
          /\ star_db.fact_orders[g].date_id = 20270101


\* the regions whose state-code list contains the code
RegionsOf(state_code) == {r \in DOMAIN regions : state_code \in regions[r].codes}

\* the raw users with an address of their own
OwnAddress == {i \in DOMAIN users_raw : ~NestedMissing(users_raw[i].address)}

\* C13: once load_dim_location has run, star dim_location has exactly one row per
\* row of the normalized addresses table (user and company addresses alike,
\* rows of identical contents not merged), and each row's region is the one
\* region whose state-code list contains the row's state_code, "Other" when no
\* list contains it.
C13_LocationPerAddress ==
    (consumer = "star" /\ star_pc \in {"fact_orders", "done"} /\ pc = "done") =>
        LET A == processed.addresses.v
            L == star_db.dim_location
        IN /\ Len(L) = Len(A)
           /\ Len(A) = Cardinality(OwnAddress) + Cardinality(OwnCompanyAddress)
           /\ \A i, j \in DOMAIN L : L[i].location_id = L[j].location_id => i = j
           /\ \A i \in DOMAIN L :
                 /\ L[i].address_line = A[i].address_line /\ L[i].city = A[i].city
                 /\ L[i].state = A[i].state /\ L[i].state_code = A[i].state_code
                 /\ L[i].postal_code = A[i].postal_code /\ L[i].country = A[i].country
                 /\ Cardinality(RegionsOf(A[i].state_code.v)) <= 1
                 /\ \A r \in RegionsOf(A[i].state_code.v) : L[i].region = regions[r].region
                 /\ RegionsOf(A[i].state_code.v) = {} => L[i].region = "Other"
                 /\ A[i].state_code = Str("NY") => L[i].region = "Northeast"
                 /\ A[i].state_code = Str("TX") => L[i].region = "Southwest"
                 /\ A[i].state_code \in {Str("DC"), Str("")} => L[i].region = "Other"

\* dim_location was loaded from a user address and a company address of the same
\* contents, and from addresses of a listed and of an unlisted state code
C13_Witness ==
    /\ consumer = "star" /\ star_pc = "done" /\ pc = "done"
    /\ Len(star_db.dim_location) = 4
    /\ \E i, j, k, l \in DOMAIN star_db.dim_location :
          /\ i # j
          /\ [star_db.dim_location[i] EXCEPT !.location_id = 0]
                = [star_db.dim_location[j] EXCEPT !.location_id = 0]
          /\ star_db.dim_location[i].region = "Northeast"
          /\ star_db.dim_location[k].state_code = Str("DC")
          /\ star_db.dim_location[l].state_code = Str("")
          /\ star_db.dim_location[k].region = "Other"
          /\ star_db.dim_location[l].region = "Other"


\* the dim_location rows with the city, state_code and postal_code of an address
SamePlace(L, a) ==
    {i \in DOMAIN L : /\ L[i].city = a.city /\ L[i].state_code = a.state_code
                      /\ L[i].postal_code = a.postal_code}

\* the location_id the fact rows of an order are to carry
LocationOfOrder(order, users, addresses, L) ==
    IF ~HasRow(users, "id", order.user_id) THEN None
    ELSE LET u == RowWithId(users, order.user_id)
         IN IF u.address_id = None THEN None
            ELSE LET a == RowWithId(addresses, u.address_id)
                 IN Num(L[CHOOSE i \in SamePlace(L, a) :
                              \A j \in SamePlace(L, a) : i <= j].location_id)

\* C14: in the star fact table the location_id of a row whose order's user has an
\* address is the id of the first dim_location row whose city, state_code and
\* postal_code equal those of that user's address, and location_id is null when
\* the order's user is unknown or has no address.
C14_FactLocation ==
    (consumer = "star" /\ star_pc = "done" /\ pc = "done") =>
        \A f \in DOMAIN star_db.fact_orders :
            \A o \in DOMAIN processed.orders.v :
                processed.orders.v[o].id = star_db.fact_orders[f].order_id
                    => star_db.fact_orders[f].location_id
                         = LocationOfOrder(processed.orders.v[o], processed.users.v,
                                           processed.addresses.v, star_db.dim_location)


\* the load of this table has returned
Returned(table) == \E n \in DOMAIN snow_log : snow_log[n] = <<"return", table>>

\* the dim_states rows of a state code
StatesOf(S, code) == {s \in DOMAIN S : S[s].state_code = code}

\* C15: after load_dim_cities, an address whose state_code has no row in
\* dim_states (a state code without a state name, for one) has produced no city
\* row and no error; every dim_cities row's state_id is the state_id of a
\* dim_states row, and there is exactly one city row per distinct
\* (city_name, state_id) pair of the addresses that have a city and a state.
C15_CitiesNeedTheirState ==
    (consumer = "snow" /\ pc = "done"
        /\ \E n \in DOMAIN snow_log : snow_log[n] = <<"call", "dim_cities">>) =>
        LET A == processed.addresses.v
            S == snow_db.dim_states
            C == snow_db.dim_cities
        IN /\ Returned("dim_cities")
           /\ \A c \in DOMAIN C :
                 /\ \E s \in DOMAIN S : Num(S[s].state_id) = C[c].state_id
                 /\ \E a \in DOMAIN A :
                       /\ A[a].city = C[c].city_name
                       /\ \E s \in StatesOf(S, A[a].state_code) :
                             Num(S[s].state_id) = C[c].state_id
           /\ \A c, d \in DOMAIN C :
                 (C[c].city_name = C[d].city_name /\ C[c].state_id = C[d].state_id)
                     => c = d
           /\ \A a \in DOMAIN A :
                 (Truthy(A[a].city) /\ Truthy(A[a].state_code)) =>
                     IF StatesOf(S, A[a].state_code) = {}
                     THEN \A c \in DOMAIN C :
                             \E b \in DOMAIN A :
                                 /\ b # a /\ A[b].city = C[c].city_name
                                 /\ StatesOf(S, A[b].state_code) # {}
                     ELSE \E c \in DOMAIN C :
                             /\ C[c].city_name = A[a].city
                             /\ \E s \in StatesOf(S, A[a].state_code) :
                                   Num(S[s].state_id) = C[c].state_id

\* the cities were loaded from an address with a state code and no state name,
\* which gave no row, and an address with both, which gave one
C15_Witness ==
    /\ consumer = "snow" /\ pc = "done" /\ Returned("dim_cities")
    /\ Len(processed.addresses.v) = 2
    /\ \E a \in DOMAIN processed.addresses.v :
          /\ processed.addresses.v[a].state_code = Str("NY")
          /\ processed.addresses.v[a].state = Str("")
    /\ Len(snow_db.dim_states) = 1 /\ Len(snow_db.dim_cities) = 1
    /\ snow_db.dim_cities[1].city_name = Str("Austin")


\* the rows of a table that belong to the record with this id, in table order
RowsOf(rows, col, id) == SelectSeq(rows, LAMBDA r : r[col] = id)

\* C16: for every raw product (ids distinct), the product_images rows of the
\* product carry image_order 0, 1, 2, ... and the urls of the raw images array in
\* array order, and the product document lists the raw images, the raw tags and
\* the raw reviews, each in source order.
C16_ImagesRoundTrip ==
    (consumer = "mongo" /\ pc = "done") =>
        /\ Len(products_docs) = Len(products_raw)
        /\ \A i \in DOMAIN products_raw :
              LET raw == products_raw[i]
                  doc == products_docs[i]
                  rows == RowsOf(tables.product_images, "product_id", raw.id)
                  reviews == ListOf(raw.reviews)
              IN /\ doc._id = raw.id
                 /\ Len(rows) = Len(ListOf(raw.images))
                 /\ \A k \in DOMAIN rows :
                       /\ rows[k].image_order = Num(k - 1)
                       /\ rows[k].image_url = ListOf(raw.images)[k]
                 /\ doc.images = ListOf(raw.images)
                 /\ doc.tags = ListOf(raw.tags)
                 /\ doc.reviews = [k \in DOMAIN reviews |->
                                      [rating |-> Get(reviews[k].rating),
                                       comment |-> Get(reviews[k].comment)]]

\* documents were built for a product with three images that are not in
\* alphabetical order, two tags and two reviews, next to another product with an
\* image
C16_Witness ==
    /\ consumer = "mongo" /\ pc = "done"
    /\ Len(products_docs) = 2
    /\ products_docs[1].images = <<Str("a.png")>>
    /\ products_docs[2].images = <<Str("c.png"), Str("a.png"), Str("b.png")>>
    /\ Len(products_docs[2].tags) = 2 /\ Len(products_docs[2].reviews) = 2


\* an item sub-document carries the line's quantity, price and total and the
\* title, category name and thumbnail of the product the line refers to
ItemOfLine(doc, line) ==
    /\ doc.quantity = line.quantity /\ doc.price = line.price /\ doc.total = line.total
    /\ HasRow(tables.products, "id", line.product_id)
    /\ LET p == RowWithId(tables.products, line.product_id)
       IN /\ doc.product_id = p.id
          /\ doc.title = p.title
          /\ doc.thumbnail = p.thumbnail_url
          /\ doc.category = RowWithId(tables.categories, p.category_id).name

\* C17: every order document's items list has exactly one item sub-document per
\* order_items row of that order, in table order, each with the referenced
\* product's title, category name and thumbnail and the line's quantity, price
\* and total; and the document embeds the user sub-object (id, username, names,
\* email) of the order's user.
C17_OrderDocumentItems ==
    (consumer = "mongo" /\ pc = "done") =>
        /\ Len(orders_docs) = Len(tables.orders)
        /\ \A i \in DOMAIN orders_docs :
              LET order == tables.orders[i]
                  doc == orders_docs[i]
                  lines == RowsOf(tables.order_items, "order_id", order.id)
              IN /\ doc._id = order.id
                 /\ Len(doc.items) = Len(lines)
                 /\ \A k \in DOMAIN lines :
                       k \in DOMAIN doc.items /\ ItemOfLine(doc.items[k], lines[k])
                 /\ HasRow(tables.users, "id", order.user_id) =>
                       LET u == RowWithId(tables.users, order.user_id)
                       IN /\ doc.user # Absent
                          /\ doc.user.id = u.id /\ doc.user.username = u.username
                          /\ doc.user.first_name = u.first_name
                          /\ doc.user.last_name = u.last_name
                          /\ doc.user.email = u.email


\* the first address row with a state code and a state name that has this code
FirstOfState(A, code) ==
    CHOOSE a \in DOMAIN A :
        /\ Truthy(A[a].state_code) /\ Truthy(A[a].state) /\ A[a].state_code = code
        /\ \A b \in 1 .. (a - 1) :
              ~(Truthy(A[b].state_code) /\ Truthy(A[b].state) /\ A[b].state_code = code)

\* the first raw product whose category name gives this slug
FirstOfSlug(slug) ==
    CHOOSE i \in DOMAIN products_raw :
        /\ RawSlug(products_raw[i]) = slug
        /\ \A j \in 1 .. (i - 1) : RawSlug(products_raw[j]) # slug

\* C18: the one dimension row created for a natural key carries the attributes
\* of the first-seen source row: dim_states has one row per state code, with the
\* state name of the first address of that code, and the categories row of a
\* slug keeps the category name of the first product of that slug.
C18_FirstSeenWins ==
    /\ pc = "done" =>
          \A c \in DOMAIN tables.categories :
              tables.categories[c].name
                  = GetD(products_raw[FirstOfSlug(tables.categories[c].slug.v)].category,
                         Chars(uncategorized))
    /\ (consumer = "snow" /\ pc = "done" /\ Returned("dim_states")) =>
          LET A == processed.addresses.v
              S == snow_db.dim_states
          IN /\ \A s, t \in DOMAIN S : S[s].state_code = S[t].state_code => s = t
             /\ \A s \in DOMAIN S :
                   S[s].state_name = A[FirstOfState(A, S[s].state_code)].state


\* the fact rows are the order_items rows, one for one and in table order, each
\* with its line's order_id, product_id, quantity and unit price and its order's
\* user_id and status ("completed" when the order has no status)
FactRowPerItem(facts, orders, order_items) ==
    /\ Len(facts) = Len(order_items)
    /\ \A k \in DOMAIN order_items :
          /\ facts[k].order_id = order_items[k].order_id
          /\ facts[k].product_id = order_items[k].product_id
          /\ Num(facts[k].quantity) = order_items[k].quantity
          /\ Num(facts[k].unit_price) = order_items[k].price
          /\ HasRow(orders, "id", order_items[k].order_id)
          /\ LET o == RowWithId(orders, order_items[k].order_id)
             IN /\ facts[k].user_id = o.user_id
                /\ facts[k].order_status
                     = (IF o.status = Absent THEN Str("completed") ELSE o.status)

\* C19: the fact table a completed load_fact_orders built (star and snowflake)
\* has exactly one row per row of the order_items table it read, with the same
\* order_id, product_id, quantity and unit price, and with user_id and
\* order_status of the owning order ("completed" when the order has none); no
\* order item is dropped or duplicated.
C19_FactRowPerOrderItem ==
    /\ (consumer = "star" /\ star_pc = "done")
          => FactRowPerItem(star_db.fact_orders, LoadOrEmpty(processed, "orders"),
                            LoadOrEmpty(processed, "order_items"))
    /\ (consumer = "snow" /\ snow_pc = "done")
          => FactRowPerItem(snow_db.fact_orders, LoadOrEmpty(processed, "orders"),
                            LoadOrEmpty(processed, "order_items"))

\* a snowflake load built three fact rows for two orders of different users and
\* statuses
C19_Witness ==
    /\ consumer = "snow" /\ snow_pc = "done" /\ pc = "done"
    /\ Len(snow_db.fact_orders) = 3
    /\ \E f, g \in DOMAIN snow_db.fact_orders :
          /\ snow_db.fact_orders[f].order_status = Str("shipped")
          /\ snow_db.fact_orders[g].order_status = Str("delivered")
          /\ snow_db.fact_orders[f].user_id # snow_db.fact_orders[g].user_id


\* the quarter of a month in a year that starts with month `first`
QuarterFrom(first, month) ==
    CHOOSE q \in 1 .. 4 :
        \E n \in 0 .. 2 : ((first - 1 + 3 * (q - 1) + n) % 12) + 1 = month

\* C20: every generated calendar day has fiscal_year = year when month < 10 and
\* year + 1 otherwise, fiscal_quarter = ((month - 10) mod 12) div 3 + 1, which is
\* 1 for October-December, 2 for January-March, 3 for April-June and 4 for
\* July-September, and quarter = (month - 1) div 3 + 1; fiscal_year never
\* decreases along the date_id order.
C20_FiscalCalendar ==
    \A k \in DOMAIN dates :
        LET r == dates[k]
        IN /\ r.year = r.full_date[1] /\ r.month = r.full_date[2]
           /\ r.fiscal_year = (IF r.month < 10 THEN r.year ELSE r.year + 1)
           /\ r.fiscal_quarter = (((r.month - 10) % 12) \div 3) + 1
           /\ r.fiscal_quarter \in 1 .. 4
           /\ r.fiscal_quarter = QuarterFrom(10, r.month)
           /\ r.month \in {10, 11, 12} <=> r.fiscal_quarter = 1
           /\ r.month \in {1, 2, 3} <=> r.fiscal_quarter = 2
           /\ r.month \in {4, 5, 6} <=> r.fiscal_quarter = 3
           /\ r.month \in {7, 8, 9} <=> r.fiscal_quarter = 4
           /\ r.quarter = ((r.month - 1) \div 3) + 1
           /\ r.quarter = QuarterFrom(1, r.month)
           /\ k > 1 => dates[k - 1].fiscal_year <= r.fiscal_year

\* the calendar of 2020..2021 was returned; 2020-10-01 opens fiscal year 2021
C20_Witness ==
    /\ cal_pc = "done" /\ start_year = 2020 /\ end_year = 2021
    /\ dates[274].full_date = <<2020, 9, 30>>
    /\ dates[274].fiscal_year = 2020 /\ dates[274].fiscal_quarter = 4
    /\ dates[275].full_date = <<2020, 10, 1>>
    /\ dates[275].fiscal_year = 2021 /\ dates[275].fiscal_quarter = 1
    /\ dates[275].quarter = 4
    /\ dates[367].full_date = <<2021, 1, 1>> /\ dates[367].fiscal_year = 2021
    /\ dates[367].fiscal_quarter = 2


\* the tables a table's rows refer to (the *_id columns the normalizer writes)
References(t) ==
    CASE t = "companies" -> {"addresses"}
      [] t = "users" -> {"addresses", "banks", "companies"}
      [] t = "products" -> {"categories"}
      [] t \in {"product_tags", "product_images", "reviews"} -> {"products"}
      [] t = "orders" -> {"users"}
      [] t = "order_items" -> {"orders", "products"}
      [] OTHER -> {}

\* the load of table t is over: every record of its file is committed
PgLoaded(t) ==
    /\ pg_db[t] = PgLoadJson(t)
    /\ \E i \in 1 .. (pg_pos - 1) : pg_load_order[i] = t

\* C21: at every point of load_all_data, after an insert failure too, a table with
\* committed rows has every table it references already loaded; a failing insert
\* rolls back the rows of its own table only, leaves what was committed before as
\* it is, and no table is loaded after it.
C21_ParentsFirstAndPerTableRollback ==
    /\ [](\A t \in Range(pg_load_order) :
            pg_db[t] # <<>> => \A p \in References(t) : PgLoaded(p))
    /\ [][pg_pc' = "raised" /\ pg_pc # "raised"
            => /\ pg_db' = pg_db /\ pg_pending' = <<>>
               /\ pg_db'[pg_load_order[pg_pos]] = <<>>]_vars
    /\ [][pg_pc = "raised" => pg_db' = pg_db /\ pg_pending' = <<>>]_vars

\* the insert into companies failed after one of its two records had been sent,
\* with addresses, banks and categories committed
C21_Witness ==
    /\ pg_pc = "raised" /\ pg_load_order[pg_pos] = "companies"
    /\ pg_db["addresses"] # <<>> /\ pg_db["banks"] # <<>> /\ pg_db["categories"] # <<>>
    /\ pg_db["companies"] = <<>> /\ pg_db["users"] = <<>>
    /\ Len(PgLoadJson("companies")) = 2


SecondOfDay(t) == t.hour * 3600 + t.minute * 60 + t.second

\* seconds from the instant `from` to the instant `to`
Elapsed(from, to) ==
    (ToOrdinal(to.date) - ToOrdinal(from.date)) * 86400 + SecondOfDay(to) - SecondOfDay(from)

\* C22: every order_date _generate_order_date returns is not later than the moment
\* of generation and not more than 365 days earlier, and its time of day is
\* between 09:00:00 and 21:59:59.
C22_OrderDateInPriorYear ==
    od_out # None =>
        /\ Elapsed(od_out, od_now) >= 0
        /\ Elapsed(od_out, od_now) <= 365 * 86400
        /\ 9 * 3600 <= SecondOfDay(od_out)
        /\ SecondOfDay(od_out) <= 21 * 3600 + 59 * 60 + 59


\* a table's rows without the two random columns of an order
WithoutRandom(rows) ==
    [i \in DOMAIN rows |->
        IF "order_date" \in DOMAIN rows[i]
        THEN [rows[i] EXCEPT !.order_date = None, !.status = None]
        ELSE rows[i]]

CountersAtOne ==
    /\ address_id = 1 /\ bank_id = 1 /\ company_id = 1 /\ category_id = 1
    /\ review_id = 1 /\ product_tag_id = 1 /\ product_image_id = 1
    /\ order_item_id = 1

\* C23: a second normalize_all on the same raw input, on the same DataNormalizer
\* or on a new one, starts with empty caches, counters at 1 and empty tables, and
\* returns in every table the rows and surrogate keys of the first run (order_date
\* and status aside).
C23_RerunSameKeys ==
    first_run # None =>
        /\ (pc = "users" /\ users_raw = <<>>) =>
              CountersAtOne /\ category_cache = <<>> /\ tables = EmptyTables
        /\ pc = "done" =>
              \A t \in TableNames :
                  WithoutRandom(tables[t]) = WithoutRandom(first_run.tables[t])


\* no order_items row belongs to an order
NoOrderItem ==
    \A o \in Range(LoadOrEmpty(processed, "orders")) :
        ItemsOf(LoadOrEmpty(processed, "order_items"), o.id) = <<>>

\* the normalized collection the load of `table` builds its records from is empty
EmptyInput(table) ==
    CASE table = "dim_users" -> LoadOrEmpty(processed, "users") = <<>>
      [] table \in {"dim_states", "dim_cities", "dim_location"} ->
            LoadOrEmpty(processed, "addresses") = <<>>
      [] table = "dim_categories" -> LoadOrEmpty(processed, "categories") = <<>>
      [] table = "dim_products" -> LoadOrEmpty(processed, "products") = <<>>
      [] table = "dim_brands" -> Brands(LoadOrEmpty(processed, "products")) = {}
      [] table = "fact_orders" -> NoOrderItem
      [] OTHER -> FALSE

\* C24: a star or snowflake load whose normalized input collection is absent or
\* empty does not raise, leaves its table with zero records, and load_all goes on
\* to the remaining loads.
C24_EmptyInputLoadsNothing ==
    /\ (consumer = "star" /\ star_pc = "raised") => ~EmptyInput("fact_orders")
    /\ (consumer = "snow" /\ snow_pc = "raised") =>
          ~EmptyInput(snow_log[Len(snow_log)][2])
    /\ (consumer = "star" /\ star_pc = "done") =>
          \A t \in {"dim_users", "dim_products", "dim_location", "fact_orders"} :
              EmptyInput(t) => star_db[t] = <<>>
    /\ (consumer = "snow" /\ snow_pc = "done") =>
          \A t \in Range(snow_load_order) : EmptyInput(t) => snow_db[t] = <<>>


\* the fields the field-level validation requires of a record of the file
RequiredFields(file) ==
    CASE file = "users" -> {"id", "email", "username"}
      [] file = "products" -> {"id", "title"}
      [] file = "orders" -> {"id", "user_id"}
      [] file = "order_items" -> {"order_id", "product_id", "quantity"}
      [] OTHER -> {}

\* a message about record idx of the file is in the dict
HasMessage(d, file, kinds, idx, what) ==
    /\ (file \o ".json") \in DOMAIN d
    /\ \E n \in DOMAIN d[file \o ".json"] :
          LET m == d[file \o ".json"][n]
          IN m.kind \in kinds /\ m.idx = idx /\ m.what = what

IsNegative(x) == x.k = "int" /\ x.v < 0

\* C25: in every validated file each record's missing or null required field, negative
\* price and negative total is recorded as an error; a suspicious age, an email
\* without "@", a rating outside [0, 5] and an empty file are recorded as warnings
\* and not as errors; this holds for every record, whatever the records before it had.
C25_FieldViolationsClassified ==
    (consumer = "validator" /\ pc = "done") =>
        \A file \in {"users", "products", "orders", "order_items"} :
            LET rows == tables[file] IN
            /\ rows = <<>> =>
                  /\ HasMessage(warnings, file, {"File is empty"}, 0, file)
                  /\ (file \o ".json") \notin DOMAIN errors
            /\ \A i \in DOMAIN rows :
                  /\ \A f \in RequiredFields(file) :
                        (f \notin DOMAIN rows[i] \/ rows[i][f] = None)
                            => HasMessage(errors, file,
                                          {"Missing", "Missing required field"}, i - 1, f)
                  /\ (file = "products" /\ IsNegative(rows[i].price))
                        => HasMessage(errors, file, {"Negative price"}, i - 1, "price")
                  /\ (file = "orders" /\ IsNegative(rows[i].total))
                        => HasMessage(errors, file, {"Negative total"}, i - 1, "total")
                  /\ (file = "users" /\ rows[i].age.k = "int"
                      /\ ~(0 < rows[i].age.v /\ rows[i].age.v < 120))
                        => /\ HasMessage(warnings, file, {"Suspicious age value"}, i - 1, "age")
                           /\ ~HasMessage(errors, file, {"Suspicious age value"}, i - 1, "age")
                  /\ (file = "users" /\ rows[i].email.k = "chars" /\ ~HasAt(rows[i].email.v))
                        => /\ HasMessage(warnings, file, {"Invalid email format"}, i - 1, "email")
                           /\ ~HasMessage(errors, file, {"Invalid email format"}, i - 1, "email")
                  /\ (file = "products" /\ rows[i].rating.k = "int"
                      /\ ~(0 <= rows[i].rating.v /\ rows[i].rating.v <= 500))
                        => /\ HasMessage(warnings, file, {"Rating out of range"}, i - 1, "rating")
                           /\ ~HasMessage(errors, file, {"Rating out of range"}, i - 1, "rating")


\* the ids of the rows are 1, 2, ... in table order and the counter is the next one
DenseKeys(rows, counter) ==
    /\ \A i \in DOMAIN rows : rows[i].id = Num(i)
    /\ counter = Len(rows) + 1

\* C26: in one normalize_all run on a fresh DataNormalizer the surrogate keys of
\* addresses, banks, companies, categories, product_tags, product_images, reviews
\* and order_items are exactly 1..n in table order, and each counter has advanced
\* by the number of rows of its own table only.
C26_DenseSurrogateKeys ==
    pc \in {"users", "products", "carts", "done"} =>
        /\ DenseKeys(tables.addresses, address_id)
        /\ DenseKeys(tables.banks, bank_id)
        /\ DenseKeys(tables.companies, company_id)
        /\ DenseKeys(category_cache, category_id)
        /\ pc \in {"carts", "done"} => tables.categories = category_cache
        /\ DenseKeys(tables.product_tags, product_tag_id)
        /\ DenseKeys(tables.product_images, product_image_id)
        /\ DenseKeys(tables.reviews, review_id)
        /\ DenseKeys(tables.order_items, order_item_id)

\* a finished run that allocated keys of all eight types, several of most
C26_Witness ==
    /\ pc = "done"
    /\ Len(tables.addresses) = 2 /\ Len(tables.banks) = 1 /\ Len(tables.companies) = 1
    /\ Len(tables.categories) = 1 /\ Len(tables.product_tags) = 2
    /\ Len(tables.product_images) = 1 /\ Len(tables.reviews) = 1
    /\ Len(tables.order_items) = 3


\* the normalized products whose category_id is the id of a categories row
CategorizedProducts ==
    {p \in Range(LoadOrEmpty(processed, "products")) :
        \E c \in Range(LoadOrEmpty(processed, "categories")) : c.id = p.category_id}

\* the snow_dim_products row of a normalized product
SnowProductRow(p) ==
    CHOOSE r \in Range(snow_db.dim_products) : r.product_id = p.id

\* C27: once the snowflake dim_products is loaded, every normalized product whose
\* category_id refers to a categories row has a dim_products row whose category_id
\* is non-null and is the key of the snow_dim_categories row of the same slug, and
\* whose brand_id is non-null and is the key of the snow_dim_brands row of the
\* product's brand name when the brand is non-empty; two such products have the
\* same snowflake category_id exactly when they have the same normalized one.
C27_CategoryKeysConsistent ==
    (consumer = "snow" /\ Returned("dim_products")) =>
        /\ \A p \in CategorizedProducts :
              /\ \E r \in Range(snow_db.dim_products) : r.product_id = p.id
              /\ SnowProductRow(p).category_id # None
              /\ \E c \in Range(LoadOrEmpty(processed, "categories")) :
                    /\ c.id = p.category_id
                    /\ \E d \in Range(snow_db.dim_categories) :
                          /\ d.category_slug = c.slug
                          /\ Num(d.category_id) = SnowProductRow(p).category_id
              /\ Truthy(Get(p.brand)) =>
                    /\ SnowProductRow(p).brand_id # None
                    /\ \E b \in Range(snow_db.dim_brands) :
                          /\ b.brand_name = p.brand
                          /\ Num(b.brand_id) = SnowProductRow(p).brand_id
        /\ \A p, q \in CategorizedProducts :
              (SnowProductRow(p).category_id = SnowProductRow(q).category_id)
                  <=> (p.category_id = q.category_id)

\* dim_products is loaded with two products that were given the same category under
\* two spellings, one of them with a brand
C27_Witness ==
    /\ consumer = "snow" /\ Returned("dim_products")
    /\ \E p, q \in CategorizedProducts :
          /\ p.id # q.id /\ p.category_id = q.category_id
          /\ Truthy(Get(p.brand)) /\ ~Truthy(Get(q.brand))
    /\ Len(snow_db.dim_products) = 2


\* the names of the steps started so far, in the order they started
RECURSIVE Started(_)
Started(log) ==
    IF log = <<>> THEN <<>>
    ELSE IF log[Len(log)][1] = "start"
         THEN Append(Started(SubSeq(log, 1, Len(log) - 1)), log[Len(log)][2])
         ELSE Started(SubSeq(log, 1, Len(log) - 1))

FixedOrder == <<"Extract", "Transform", "Load PostgreSQL", "Load MongoDB", "Cache Redis">>

\* C28: the pipeline starts its steps in the order Extract, Transform, Load
\* PostgreSQL, Load MongoDB, Cache Redis; a step starts only after every earlier
\* step has returned success; at the first step that returns false the pipeline
\* exits with status 1 and starts no later step.
C28_StepsInOrderStopAtFailure ==
    /\ Len(Started(pipe_log)) <= Len(FixedOrder)
    /\ Started(pipe_log) = SubSeq(FixedOrder, 1, Len(Started(pipe_log)))
    /\ \A n \in DOMAIN pipe_log :
          pipe_log[n][1] = "start" =>
              \A k \in DOMAIN FixedOrder :
                  (\E j \in k + 1 .. Len(FixedOrder) : FixedOrder[j] = pipe_log[n][2])
                      => \E m \in 1 .. (n - 1) :
                            pipe_log[m] = <<"return", FixedOrder[k], TRUE>>
    /\ \A n \in DOMAIN pipe_log :
          (pipe_log[n][1] = "return" /\ ~pipe_log[n][3]) =>
              /\ pipe_pc = "exited"
              /\ Len(pipe_log) = n + 1 /\ pipe_log[n + 1] = <<"exit", 1>>
    /\ pipe_pc = "complete" =>
          pipe_results = [k \in DOMAIN FixedOrder |-> <<FixedOrder[k], TRUE>>]

\* the pipeline exited at the PostgreSQL load, after an insert into products failed
C28_Witness ==
    /\ pipe_pc = "exited"
    /\ pipe_results = <<<<"Extract", TRUE>>, <<"Transform", TRUE>>,
                        <<"Load PostgreSQL", FALSE>>>>
    /\ pg_pc = "raised" /\ pg_load_order[pg_pos] = "products"
    /\ consumer = "none"

-----------------------------------------------------------------------------
\* C29: once the star and the snowflake calendar builders have both returned
\* for the same (start_year, end_year), their row lists are identical (same
\* date_id for the same date, same value of every derived attribute);
\* is_holiday is true exactly on January 1, July 4 and December 25 and
\* is_weekend exactly on Saturday and Sunday; and when both are called again
\* with the same years each returns the list it returned the first time.
IsHolidayDate(d) ==
    \/ d[2] = 1 /\ d[3] = 1
    \/ d[2] = 7 /\ d[3] = 4
    \/ d[2] = 12 /\ d[3] = 25

C29_CalendarBuildersAgree ==
    /\ (cal_pc = "done" /\ snow_cal_pc = "done") =>
          /\ snow_dates = dates
          /\ \A k \in DOMAIN snow_dates :
                /\ snow_dates[k].is_holiday = IsHolidayDate(snow_dates[k].full_date)
                /\ snow_dates[k].is_weekend
                      = (snow_dates[k].day_name \in {"Saturday", "Sunday"})
                /\ dates[k].is_holiday = IsHolidayDate(dates[k].full_date)
                /\ dates[k].is_weekend = (dates[k].day_name \in {"Saturday", "Sunday"})
    /\ (first_dates # None /\ cal_pc = "done") => dates = first_dates.star
    /\ (first_dates # None /\ snow_cal_pc = "done") => snow_dates = first_dates.snowflake

\* both builders have returned a second time, with holidays, weekend days and
\* ordinary days among the rows
C29_Witness ==
    /\ first_dates # None
    /\ cal_pc = "done"
    /\ snow_cal_pc = "done"
    /\ \E k \in DOMAIN snow_dates : snow_dates[k].is_holiday
    /\ \E k \in DOMAIN snow_dates : snow_dates[k].is_weekend
    /\ \E k \in DOMAIN dates : ~dates[k].is_holiday /\ ~dates[k].is_weekend

-----------------------------------------------------------------------------
\* C30: when generate_all_test_data has returned for a target_count >= 1 over
\* non-empty source files, test_users.json holds exactly target_count users
\* whose ids are 10000 .. 10000 + target_count - 1, each once, and the user_id
\* of every order of test_orders.json is the id of one of those users.
GenReturned ==
    /\ gen # None
    /\ IF gen = None THEN FALSE ELSE gen.at = "returned"

TestUserIds == {test_files["test_users.json"][k].id : k \in DOMAIN test_files["test_users.json"]}

TestUsersNumbered ==
    /\ Len(test_files["test_users.json"]) = gen.target_count
    /\ \A k \in DOMAIN test_files["test_users.json"] :
          test_files["test_users.json"][k].id = first_test_id + k - 1
    /\ TestUserIds = first_test_id .. (first_test_id + gen.target_count - 1)

C30_TestUsersNumberedOrdersReferThem ==
    GenReturned =>
        /\ TestUsersNumbered
        /\ \A k \in DOMAIN test_files["test_orders.json"] :
              test_files["test_orders.json"][k].user_id \in TestUserIds

====
